---- MODULE Spec2Model ----
(***************************************************************************)
(* casabot: the Wyoming-protocol speech-to-text bridge.                    *)
(*                                                                         *)
(* The model follows rootfs/usr/share/casabot/handler.py, the session      *)
(* handler AzureOpenAISttEventHandler: one session per connection, each    *)
(* with its own audio buffer and byte counter, fed protocol events one at  *)
(* a time by the connection's task.  The end-of-stream handler suspends    *)
(* twice: while the backend call runs in the executor, and while           *)
(* write_event drains the connection's writer.  So it is up to three       *)
(* steps: the part up to the submission (AudioStop), the part after the    *)
(* call returns or raises (BackendReturn), and the write returning         *)
(* (WriteDone) or raising (WriteFails).                                    *)
(*                                                                         *)
(* The wyoming library is not part of the sources.  Its Error is a         *)
(* dataclass with the fields text and code; the handler constructs it with *)
(* the keyword `context`, which a dataclass takes only when it is one of   *)
(* its fields.  When handle_event raises, the session's run() ends and the *)
(* connection is released: the client's next read finds the end of the     *)
(* stream.                                                                 *)
(*                                                                         *)
(* Byte strings are kept run-length encoded (a sequence of runs            *)
(* [b |-> byte value, n |-> count >= 1], adjacent runs of different byte   *)
(* values), which is a canonical form: two byte strings are equal exactly  *)
(* when their encodings are.  Text is a sequence of symbols; the literal   *)
(* message fragments of the source are single symbols.                     *)
(*                                                                         *)
(* The process is started through __main__.py, whose main() validates the  *)
(* configuration with config_validator.py, or through wyoming_server.py,   *)
(* whose main() checks the two required variables only.  Configuration     *)
(* strings are sequences of characters, and urlparse, the port and the     *)
(* patterns are computed on them as Python 3.11 computes them.             *)
(***************************************************************************)
EXTENDS Integers, Sequences, FiniteSets, TLC

\* ------------------------------------------------------------------ bounds

\* Connections (sessions) of the model.
NumSessions == 2
\* Events one connection delivers in the specification Spec.
MaxEvents == 5

\* handler.py:124, the plausibility floor of _transcribe_audio.
MinAudioBytes == 1024

Sessions == 1..NumSessions

\* ------------------------------------------------------------ byte strings

EmptyBytes == <<>>

\* n bytes of value b.
Run(b, n) == IF n = 0 THEN <<>> ELSE <<[b |-> b, n |-> n]>>

\* bytes + bytes
BytesConcat(x, y) ==
    IF x = <<>> THEN y
    ELSE IF y = <<>> THEN x
    ELSE IF x[Len(x)].b = y[1].b
         THEN SubSeq(x, 1, Len(x) - 1)
                \o <<[b |-> y[1].b, n |-> x[Len(x)].n + y[1].n]>>
                \o SubSeq(y, 2, Len(y))
         ELSE x \o y

\* len(bytes)
RECURSIVE BytesLen(_)
BytesLen(x) == IF x = <<>> THEN 0 ELSE x[1].n + BytesLen(Tail(x))

\* ------------------------------------------------------------------- text

\* The characters str.strip() removes: those for which str.isspace() holds.
\* A character with no escape in a string is its code point's name.
Whitespace ==
    { "\t", "\n", "U+000B", "\f", "\r", "U+001C", "U+001D", "U+001E",
      "U+001F", " ", "U+0085", "U+00A0", "U+1680", "U+2000", "U+2001",
      "U+2002", "U+2003", "U+2004", "U+2005", "U+2006", "U+2007", "U+2008",
      "U+2009", "U+200A", "U+2028", "U+2029", "U+202F", "U+205F", "U+3000" }

\* str.lstrip()
RECURSIVE LStrip(_)
LStrip(t) ==
    IF t # <<>> /\ t[1] \in Whitespace THEN LStrip(Tail(t)) ELSE t

\* str.rstrip()
RECURSIVE RStrip(_)
RStrip(t) ==
    IF t # <<>> /\ t[Len(t)] \in Whitespace
    THEN RStrip(SubSeq(t, 1, Len(t) - 1))
    ELSE t

\* str.strip()
Strip(t) == RStrip(LStrip(t))

\* Optional[str]: None, or a string.
None == [isNone |-> TRUE, v |-> <<>>]
Some(t) == [isNone |-> FALSE, v |-> t]

\* Python truth value of an Optional[str]: None and "" are false.
Truthy(o) == ~o.isNone /\ o.v # <<>>

\* ----------------------------------------------------------------- inputs

\* Payloads an audio chunk may carry: one byte short of the floor, exactly
\* the floor (of another byte value).
Payloads == { Run(1, MinAudioBytes - 1), Run(2, MinAudioBytes) }

\* Event types handle_event has no branch for.
OtherTypes == { "describe" }

\* What str(e) may be for an exception the backend call raises.
Causes == { <<"Connection error.">> }

\* What str(e) may be for an exception write_event raises.
WriteCauses == { <<"Connection lost">> }

\* What response.text may be: empty, whitespace only, words with whitespace
\* around them.
Texts ==
    { <<>>,
      << "\t", "U+00A0" >>,
      << " ", "\t", "hello", " ", "world", "\r", "\n" >> }

\* What transcriptions.create may return: None, an object with no text
\* attribute, an object whose text is None, an object whose text is a string.
\* cls is the name of the value's class, type(response).__name__.
Responses ==
    { [isObj |-> FALSE, cls |-> "NoneType", hasText |-> FALSE, text |-> None],
      [isObj |-> TRUE,  cls |-> "object", hasText |-> FALSE, text |-> None],
      [isObj |-> TRUE,  cls |-> "Transcription", hasText |-> TRUE,
       text |-> None] }
    \cup { [isObj |-> TRUE, cls |-> "Transcription", hasText |-> TRUE,
            text |-> Some(t)] : t \in Texts }

\* How a backend call ends: it raises, or it returns a response.
NoResponse ==
    [isObj |-> FALSE, cls |-> "NoneType", hasText |-> FALSE, text |-> None]
Outcomes ==
    { [kind |-> "raise", cause |-> c, response |-> NoResponse] : c \in Causes }
    \cup { [kind |-> "return", cause |-> <<>>, response |-> r] : r \in Responses }
Pending == [kind |-> "pending", cause |-> <<>>, response |-> NoResponse]

\* ------------------------------------------------------------------ state

VARIABLES
    audio_buffer,       \* [session -> bytes]: self.audio_buffer (handler.py:34)
    audio_bytes_left,   \* [session -> Nat]: self.audio_bytes_left (handler.py:35)
    pc,                 \* [session -> "idle" | "awaiting" | "writing" |
                        \* "ended"]: where the session's task stands: between
                        \* events, suspended on the backend call, suspended in
                        \* write_event, or out of its event loop
    ret,                \* [session -> "none" | "True" | "False" | "raised"]:
                        \* how the last handle_event call ended
    written,            \* [session -> Seq([at, event])]: the events handed to
                        \* write_event, each with the position in handled of
                        \* the event being handled when it was written
    calls,              \* [session -> Seq(call)]: the backend calls made, each
                        \* [audio, at, outcome]: the bytes submitted, the
                        \* position in handled of the event being handled, and
                        \* how the call ended (Pending while it runs)
    handled,            \* [session -> Seq(event)]: the events handle_event was
                        \* called with, in arrival order
    quota,              \* [session -> Nat]: session s is delivered events
                        \* while fewer than quota[s] events were delivered in
                        \* all in this behaviour
    proc,               \* where main() stands: "start" (not run yet) |
                        \* "configured" | "validated" | "ready" | "serving",
                        \* or ended: "exit1" (sys.exit(1)) | "crashed" (an
                        \* exception left main)
    entry,              \* the module whose main() runs: "none" before the
                        \* process is started, then "__main__" or
                        \* "wyoming_server"
    cli_args,           \* the configuration main() read from the environment
    factory,            \* the handler factory main() gave to server.run:
                        \* [set, passes, bound]
    session,            \* [session -> [state, base_args]]: "none" before the
                        \* handler is constructed, then "running", or how
                        \* __init__ failed; base_args is what __init__ passed
                        \* to the base constructor
    constructions,      \* who built an AzureOpenAI client, in order
    error_fields,       \* the fields of the Error dataclass of the wyoming
                        \* library the process runs with
    copies              \* [h, w, log]: a session of handler.py and a session
                        \* of wyoming_server.py, given the same events (log)
                        \* and the same backend outcomes

sessionVars == << audio_buffer, audio_bytes_left, pc, ret, written, calls,
                  handled >>
startupVars == << proc, entry, cli_args, factory, session, constructions,
                  error_fields >>
vars == << audio_buffer, audio_bytes_left, pc, ret, written, calls, handled,
           quota, proc, entry, cli_args, factory, session, constructions,
           error_fields, copies >>

\* ----------------------------------------------------------------- events

\* Events a client sends.
AudioStartEvent == [type |-> "audio-start", audio |-> EmptyBytes]
AudioChunkEvent(p) == [type |-> "audio-chunk", audio |-> p]
AudioStopEvent == [type |-> "audio-stop", audio |-> EmptyBytes]
TranscribeEvent == [type |-> "transcribe", audio |-> EmptyBytes]
OtherEvent(t) == [type |-> t, audio |-> EmptyBytes]

\* The fields of wyoming's Error, as the library declares them: text and
\* code.
ErrorFields == << "text", "code" >>

\* Error(text=..., context="transcription") on a dataclass with these fields:
\* a keyword that is not a field raises TypeError.
ErrorRaises(fields) == \A i \in 1..Len(fields) : fields[i] # "context"

\* str(e) of that TypeError.
KeywordErrorText ==
    << "Error.__init__() got an unexpected keyword argument 'context'" >>

\* Events the session writes: Transcript(text=...), and Error(text=...,
\* context=...) if the dataclass has that field.
TranscriptEvent(text) ==
    [type |-> "transcript", text |-> text, context |-> "none"]
ErrorEvent(text) ==
    [type |-> "error", text |-> text, context |-> "transcription"]

\* The texts of the three error events of handle_event.
NoAudioText == << "No audio data received" >>
NoResultText == << "No transcription result" >>
FailedPrefix == << "Transcription failed: " >>
FailedText(cause) == FailedPrefix \o cause

\* ------------------------------------------------------ handler, by branch

\* Variant: the start-of-stream makes a fresh buffer and leaves the counter.
OnAudioStartKeepCount(buffer, bytes_left) ==
    [buffer |-> EmptyBytes, bytes_left |-> bytes_left, ret |-> "True"]

\* handle_event, AudioStart branch: a fresh buffer, the counter back to 0.
OnAudioStart(buffer, bytes_left) ==
    [buffer |-> EmptyBytes, bytes_left |-> 0, ret |-> "True"]

\* Variant: the chunk is written and not counted.
OnAudioChunkNoCount(buffer, bytes_left, audio) ==
    [buffer |-> BytesConcat(buffer, audio),
     bytes_left |-> bytes_left,
     ret |-> "True"]

\* Variant: the chunk is acknowledged and not written.
OnAudioChunkDrop(buffer, bytes_left, audio) ==
    [buffer |-> buffer, bytes_left |-> bytes_left, ret |-> "True"]

\* Variant: each chunk replaces the buffer instead of being written to it.
OnAudioChunkOverwrite(buffer, bytes_left, audio) ==
    [buffer |-> audio,
     bytes_left |-> bytes_left + BytesLen(audio),
     ret |-> "True"]

\* handle_event, AudioChunk branch: write at the end of the buffer (nothing
\* ever seeks, so BytesIO's position is the end), count the payload.
OnAudioChunk(buffer, bytes_left, audio) ==
    [buffer |-> BytesConcat(buffer, audio),
     bytes_left |-> bytes_left + BytesLen(audio),
     ret |-> "True"]

\* handle_event, AudioStop branch: `if not audio_data`.
NoAudio(audio_data) == audio_data = EmptyBytes

\* How a part of the AudioStop branch ends: it hands one event to
\* write_event, after which the handler returns True, or an exception leaves
\* handle_event with nothing written.
Writes(event) == [written |-> << event >>, raises |-> FALSE]
Raises == [written |-> <<>>, raises |-> TRUE]

\* handle_event, AudioStop branch: `except Exception as e`.  The error event
\* is constructed before it is written; when the constructor raises, inside
\* the except clause, the exception leaves handle_event.
OnException(fields, cause) ==
    IF ErrorRaises(fields) THEN Raises
    ELSE Writes(ErrorEvent(FailedText(cause)))

\* handle_event, AudioStop branch with no audio: the error event, or the
\* except clause when its constructor raises (the branch is inside the try).
OnNoAudio(fields) ==
    IF ErrorRaises(fields) THEN OnException(fields, KeywordErrorText)
    ELSE Writes(ErrorEvent(NoAudioText))

\* Variant: the size floor compared with <= instead of <.
DeclinesAtFloor(audio_data) ==
    \/ audio_data = EmptyBytes
    \/ BytesLen(audio_data) <= MinAudioBytes

\* _transcribe_audio: the two guards that return None before any call.
Declines(audio_data) ==
    \/ audio_data = EmptyBytes
    \/ BytesLen(audio_data) < MinAudioBytes

\* Variant: the text is returned as the backend gave it, not stripped.
ResultTextNoStrip(response) ==
    IF response.isObj /\ response.hasText /\ Truthy(response.text)
    THEN Some(response.text.v)
    ELSE None

\* _transcribe_audio: the text made of the backend's response.
ResultText(response) ==
    IF response.isObj /\ response.hasText /\ Truthy(response.text)
    THEN Some(Strip(response.text.v))
    ELSE None

\* handle_event, AudioStop branch: the event for the text that
\* _transcribe_audio returned: a transcript `if text`, else the error event,
\* or the except clause when its constructor raises.
OnText(fields, text) ==
    IF Truthy(text) THEN Writes(TranscriptEvent(text.v))
    ELSE IF ErrorRaises(fields) THEN OnException(fields, KeywordErrorText)
    ELSE Writes(ErrorEvent(NoResultText))

\* handle_event, AudioStop branch from the point where the backend call ends:
\* _transcribe_audio re-raises what the call raised, else returns the text.
OnBackendDone(fields, outcome) ==
    IF outcome.kind = "raise"
    THEN OnException(fields, outcome.cause)
    ELSE OnText(fields, ResultText(outcome.response))

\* handle_event, AudioStop branch: `return True` once write_event has
\* returned.
OnWritten == "True"

\* The event was handed to write_event by the except clause: only there is
\* the text "Transcription failed: " put before a cause.
WrittenInExcept(event) ==
    /\ event.type = "error"
    /\ event.text # <<>>
    /\ event.text[1] = FailedPrefix[1]

\* handle_event, AudioStop branch: write_event raises with str(e) = cause.
\* The writes of the try block reach the except clause; the write of the
\* except clause itself is outside the try and its exception leaves
\* handle_event.
OnWriteRaised(fields, event, cause) ==
    IF WrittenInExcept(event) THEN Raises
    ELSE OnException(fields, cause)

\* handle_event, Transcribe branch: return True.
OnTranscribe == "True"

\* Variant: an event of an unknown type ends the session.
OnOtherStops == "False"

\* handle_event, the fall-through for every other event type: return True.
OnOther == "True"

\* Variant: the call is started and not awaited: handle_event returns at once.
OnSubmitDetached == "idle"

\* _transcribe_audio awaits the executor's future and handle_event awaits
\* _transcribe_audio: the session's task is suspended until the call ends.
OnSubmit == "awaiting"

\* Variant: the end-of-stream branch empties the buffer once it has read it.
OnStopReadAndReset(buffer, bytes_left) ==
    [audio_data |-> buffer, buffer |-> EmptyBytes, bytes_left |-> 0]

\* handle_event, AudioStop branch: getvalue() returns the buffer's contents
\* and leaves the buffer and the counter as they are.
OnStopRead(buffer, bytes_left) ==
    [audio_data |-> buffer, buffer |-> buffer, bytes_left |-> bytes_left]

\* AsyncEventHandler's loop: it goes on while handle_event returns True.
After(r) == IF r = "True" THEN "idle" ELSE "ended"

\* ---------------------------------------------------------------- actions

\* write_event for each of events, while the k-th event is being handled.
Emit(s, k, events) ==
    written[s] \o [i \in 1..Len(events) |-> [at |-> k, event |-> events[i]]]

\* Events delivered so far, over all connections.
RECURSIVE DeliveredUpTo(_)
DeliveredUpTo(n) ==
    IF n = 0 THEN 0 ELSE Len(handled[n]) + DeliveredUpTo(n - 1)
Delivered == DeliveredUpTo(NumSessions)

\* Variant: transcriptions.create is called on the event loop's thread.
RunsInExecutorNot == FALSE

\* _transcribe_audio hands the blocking call to the loop's default executor
\* (run_in_executor(None, ...)): it runs on a worker thread.
RunsInExecutor == TRUE

\* The event loop's thread is free to run the task of session s: no other
\* session's blocking call is running on it.
LoopFree(s) ==
    RunsInExecutor \/ \A t \in Sessions \ {s} : pc[t] # "awaiting"

\* Variant: the buffer is an attribute of the class, shared by its instances.
BufferOfClass(s) == 1

\* Each instance has its own buffer and counter, made in __init__.
BufferOf(s) == s

\* The session was constructed and is served, its task is between events, and
\* the connection has an event to deliver.
CanHandle(s) ==
    /\ session[s].state = "running"
    /\ pc[s] = "idle"
    /\ Delivered < quota[s]
    /\ LoopFree(s)

AudioStart(s) ==
    /\ CanHandle(s)
    /\ LET b == BufferOf(s)
           r == OnAudioStart(audio_buffer[b], audio_bytes_left[b]) IN
        /\ audio_buffer' = [audio_buffer EXCEPT ![b] = r.buffer]
        /\ audio_bytes_left' = [audio_bytes_left EXCEPT ![b] = r.bytes_left]
        /\ ret' = [ret EXCEPT ![s] = r.ret]
        /\ pc' = [pc EXCEPT ![s] = After(r.ret)]
    /\ handled' = [handled EXCEPT ![s] = Append(@, AudioStartEvent)]
    /\ UNCHANGED << written, calls, quota >>
    /\ UNCHANGED startupVars
    /\ UNCHANGED copies

AudioChunk(s, p) ==
    /\ CanHandle(s)
    /\ LET b == BufferOf(s)
           r == OnAudioChunk(audio_buffer[b], audio_bytes_left[b], p) IN
        /\ audio_buffer' = [audio_buffer EXCEPT ![b] = r.buffer]
        /\ audio_bytes_left' = [audio_bytes_left EXCEPT ![b] = r.bytes_left]
        /\ ret' = [ret EXCEPT ![s] = r.ret]
        /\ pc' = [pc EXCEPT ![s] = After(r.ret)]
    /\ handled' = [handled EXCEPT ![s] = Append(@, AudioChunkEvent(p))]
    /\ UNCHANGED << written, calls, quota >>
    /\ UNCHANGED startupVars
    /\ UNCHANGED copies

\* A part of the AudioStop branch ends with r while the k-th event of
\* session s is handled: its event is handed to write_event, whose drain
\* suspends the handler before it returns, or the exception leaves
\* handle_event and ends the session's event loop.
Ends(s, k, r) ==
    /\ written' = [written EXCEPT ![s] = Emit(s, k, r.written)]
    /\ ret' = [ret EXCEPT ![s] = IF r.raises THEN "raised" ELSE @]
    /\ pc' = [pc EXCEPT ![s] = IF r.raises THEN After("raised")
                                ELSE "writing"]

\* End-of-stream up to the first suspension: with no audio, or when
\* _transcribe_audio declines, the handler goes on to its error event at
\* once; else the call is submitted to the executor and the handler awaits
\* it.
AudioStop(s) ==
    /\ CanHandle(s)
    /\ handled' = [handled EXCEPT ![s] = Append(@, AudioStopEvent)]
    /\ LET audio_data == OnStopRead(audio_buffer[BufferOf(s)],
                                    audio_bytes_left[BufferOf(s)]).audio_data IN
        \/ /\ NoAudio(audio_data)
           /\ Ends(s, Len(handled[s]) + 1, OnNoAudio(error_fields))
           /\ UNCHANGED calls
        \/ /\ ~NoAudio(audio_data)
           /\ Declines(audio_data)
           /\ Ends(s, Len(handled[s]) + 1, OnText(error_fields, None))
           /\ UNCHANGED calls
        \/ /\ ~NoAudio(audio_data)
           /\ ~Declines(audio_data)
           /\ calls' = [calls EXCEPT ![s] =
                            Append(@, [audio |-> audio_data,
                                       at |-> Len(handled[s]) + 1,
                                       outcome |-> Pending])]
           /\ pc' = [pc EXCEPT ![s] = OnSubmit]
           /\ UNCHANGED << written, ret >>
    /\ LET b == BufferOf(s)
           r == OnStopRead(audio_buffer[b], audio_bytes_left[b]) IN
        /\ audio_buffer' = [audio_buffer EXCEPT ![b] = r.buffer]
        /\ audio_bytes_left' = [audio_bytes_left EXCEPT ![b] = r.bytes_left]
    /\ UNCHANGED quota
    /\ UNCHANGED startupVars
    /\ UNCHANGED copies

\* The backend call ends and the end-of-stream handler runs up to its write.
BackendReturn(s, outcome) ==
    /\ pc[s] = "awaiting"
    /\ LoopFree(s)
    /\ calls' = [calls EXCEPT ![s][Len(calls[s])].outcome = outcome]
    /\ Ends(s, Len(handled[s]), OnBackendDone(error_fields, outcome))
    /\ UNCHANGED << audio_buffer, audio_bytes_left, handled, quota >>
    /\ UNCHANGED startupVars
    /\ UNCHANGED copies

\* write_event returns and the end-of-stream handler returns True.
WriteDone(s) ==
    /\ pc[s] = "writing"
    /\ LoopFree(s)
    /\ ret' = [ret EXCEPT ![s] = OnWritten]
    /\ pc' = [pc EXCEPT ![s] = After(OnWritten)]
    /\ UNCHANGED << audio_buffer, audio_bytes_left, written, calls, handled,
                    quota >>
    /\ UNCHANGED startupVars
    /\ UNCHANGED copies

\* write_event raises: the peer has closed the connection.
WriteFails(s, cause) ==
    /\ pc[s] = "writing"
    /\ LoopFree(s)
    /\ Ends(s, Len(handled[s]),
            OnWriteRaised(error_fields, written[s][Len(written[s])].event,
                          cause))
    /\ UNCHANGED << audio_buffer, audio_bytes_left, calls, handled, quota >>
    /\ UNCHANGED startupVars
    /\ UNCHANGED copies

Transcribe(s) ==
    /\ CanHandle(s)
    /\ handled' = [handled EXCEPT ![s] = Append(@, TranscribeEvent)]
    /\ ret' = [ret EXCEPT ![s] = OnTranscribe]
    /\ pc' = [pc EXCEPT ![s] = After(OnTranscribe)]
    /\ UNCHANGED << audio_buffer, audio_bytes_left, written, calls, quota >>
    /\ UNCHANGED startupVars
    /\ UNCHANGED copies

Other(s, t) ==
    /\ CanHandle(s)
    /\ handled' = [handled EXCEPT ![s] = Append(@, OtherEvent(t))]
    /\ ret' = [ret EXCEPT ![s] = OnOther]
    /\ pc' = [pc EXCEPT ![s] = After(OnOther)]
    /\ UNCHANGED << audio_buffer, audio_bytes_left, written, calls, quota >>
    /\ UNCHANGED startupVars
    /\ UNCHANGED copies

\* ------------------------------------------------- startup configuration

\* A configuration string is the sequence of its characters. The characters
\* are those of ASCII, the white space of Whitespace and the decimal digits
\* of DecimalDigits; a character without an escape is named by its code
\* point. Of these only the ASCII letters have case.
Digits == { "0", "1", "2", "3", "4", "5", "6", "7", "8", "9" }
LowerCase ==
    { "a", "b", "c", "d", "e", "f", "g", "h", "i", "j", "k", "l", "m",
      "n", "o", "p", "q", "r", "s", "t", "u", "v", "w", "x", "y", "z" }
UpperCase ==
    { "A", "B", "C", "D", "E", "F", "G", "H", "I", "J", "K", "L", "M",
      "N", "O", "P", "Q", "R", "S", "T", "U", "V", "W", "X", "Y", "Z" }

\* The characters \d matches in a str pattern: every character of the Unicode
\* category Nd (Unicode 14.0), the ASCII digits and 650 others.
DecimalDigits ==
    Digits \cup
    { "U+0660", "U+0661", "U+0662", "U+0663", "U+0664", "U+0665", "U+0666",
      "U+0667", "U+0668", "U+0669", "U+06F0", "U+06F1", "U+06F2", "U+06F3",
      "U+06F4", "U+06F5", "U+06F6", "U+06F7", "U+06F8", "U+06F9", "U+07C0",
      "U+07C1", "U+07C2", "U+07C3", "U+07C4", "U+07C5", "U+07C6", "U+07C7",
      "U+07C8", "U+07C9", "U+0966", "U+0967", "U+0968", "U+0969", "U+096A",
      "U+096B", "U+096C", "U+096D", "U+096E", "U+096F", "U+09E6", "U+09E7",
      "U+09E8", "U+09E9", "U+09EA", "U+09EB", "U+09EC", "U+09ED", "U+09EE",
      "U+09EF", "U+0A66", "U+0A67", "U+0A68", "U+0A69", "U+0A6A", "U+0A6B",
      "U+0A6C", "U+0A6D", "U+0A6E", "U+0A6F", "U+0AE6", "U+0AE7", "U+0AE8",
      "U+0AE9", "U+0AEA", "U+0AEB", "U+0AEC", "U+0AED", "U+0AEE", "U+0AEF",
      "U+0B66", "U+0B67", "U+0B68", "U+0B69", "U+0B6A", "U+0B6B", "U+0B6C",
      "U+0B6D", "U+0B6E", "U+0B6F", "U+0BE6", "U+0BE7", "U+0BE8", "U+0BE9",
      "U+0BEA", "U+0BEB", "U+0BEC", "U+0BED", "U+0BEE", "U+0BEF", "U+0C66",
      "U+0C67", "U+0C68", "U+0C69", "U+0C6A", "U+0C6B", "U+0C6C", "U+0C6D",
      "U+0C6E", "U+0C6F", "U+0CE6", "U+0CE7", "U+0CE8", "U+0CE9", "U+0CEA",
      "U+0CEB", "U+0CEC", "U+0CED", "U+0CEE", "U+0CEF", "U+0D66", "U+0D67",
      "U+0D68", "U+0D69", "U+0D6A", "U+0D6B", "U+0D6C", "U+0D6D", "U+0D6E",
      "U+0D6F", "U+0DE6", "U+0DE7", "U+0DE8", "U+0DE9", "U+0DEA", "U+0DEB",
      "U+0DEC", "U+0DED", "U+0DEE", "U+0DEF", "U+0E50", "U+0E51", "U+0E52",
      "U+0E53", "U+0E54", "U+0E55", "U+0E56", "U+0E57", "U+0E58", "U+0E59",
      "U+0ED0", "U+0ED1", "U+0ED2", "U+0ED3", "U+0ED4", "U+0ED5", "U+0ED6",
      "U+0ED7", "U+0ED8", "U+0ED9", "U+0F20", "U+0F21", "U+0F22", "U+0F23",
      "U+0F24", "U+0F25", "U+0F26", "U+0F27", "U+0F28", "U+0F29", "U+1040",
      "U+1041", "U+1042", "U+1043", "U+1044", "U+1045", "U+1046", "U+1047",
      "U+1048", "U+1049", "U+1090", "U+1091", "U+1092", "U+1093", "U+1094",
      "U+1095", "U+1096", "U+1097", "U+1098", "U+1099", "U+17E0", "U+17E1",
      "U+17E2", "U+17E3", "U+17E4", "U+17E5", "U+17E6", "U+17E7", "U+17E8",
      "U+17E9", "U+1810", "U+1811", "U+1812", "U+1813", "U+1814", "U+1815",
      "U+1816", "U+1817", "U+1818", "U+1819", "U+1946", "U+1947", "U+1948",
      "U+1949", "U+194A", "U+194B", "U+194C", "U+194D", "U+194E", "U+194F",
      "U+19D0", "U+19D1", "U+19D2", "U+19D3", "U+19D4", "U+19D5", "U+19D6",
      "U+19D7", "U+19D8", "U+19D9", "U+1A80", "U+1A81", "U+1A82", "U+1A83",
      "U+1A84", "U+1A85", "U+1A86", "U+1A87", "U+1A88", "U+1A89", "U+1A90",
      "U+1A91", "U+1A92", "U+1A93", "U+1A94", "U+1A95", "U+1A96", "U+1A97",
      "U+1A98", "U+1A99", "U+1B50", "U+1B51", "U+1B52", "U+1B53", "U+1B54",
      "U+1B55", "U+1B56", "U+1B57", "U+1B58", "U+1B59", "U+1BB0", "U+1BB1",
      "U+1BB2", "U+1BB3", "U+1BB4", "U+1BB5", "U+1BB6", "U+1BB7", "U+1BB8",
      "U+1BB9", "U+1C40", "U+1C41", "U+1C42", "U+1C43", "U+1C44", "U+1C45",
      "U+1C46", "U+1C47", "U+1C48", "U+1C49", "U+1C50", "U+1C51", "U+1C52",
      "U+1C53", "U+1C54", "U+1C55", "U+1C56", "U+1C57", "U+1C58", "U+1C59",
      "U+A620", "U+A621", "U+A622", "U+A623", "U+A624", "U+A625", "U+A626",
      "U+A627", "U+A628", "U+A629", "U+A8D0", "U+A8D1", "U+A8D2", "U+A8D3",
      "U+A8D4", "U+A8D5", "U+A8D6", "U+A8D7", "U+A8D8", "U+A8D9", "U+A900",
      "U+A901", "U+A902", "U+A903", "U+A904", "U+A905", "U+A906", "U+A907",
      "U+A908", "U+A909", "U+A9D0", "U+A9D1", "U+A9D2", "U+A9D3", "U+A9D4",
      "U+A9D5", "U+A9D6", "U+A9D7", "U+A9D8", "U+A9D9", "U+A9F0", "U+A9F1",
      "U+A9F2", "U+A9F3", "U+A9F4", "U+A9F5", "U+A9F6", "U+A9F7", "U+A9F8",
      "U+A9F9", "U+AA50", "U+AA51", "U+AA52", "U+AA53", "U+AA54", "U+AA55",
      "U+AA56", "U+AA57", "U+AA58", "U+AA59", "U+ABF0", "U+ABF1", "U+ABF2",
      "U+ABF3", "U+ABF4", "U+ABF5", "U+ABF6", "U+ABF7", "U+ABF8", "U+ABF9",
      "U+FF10", "U+FF11", "U+FF12", "U+FF13", "U+FF14", "U+FF15", "U+FF16",
      "U+FF17", "U+FF18", "U+FF19", "U+104A0", "U+104A1", "U+104A2",
      "U+104A3", "U+104A4", "U+104A5", "U+104A6", "U+104A7", "U+104A8",
      "U+104A9", "U+10D30", "U+10D31", "U+10D32", "U+10D33", "U+10D34",
      "U+10D35", "U+10D36", "U+10D37", "U+10D38", "U+10D39", "U+11066",
      "U+11067", "U+11068", "U+11069", "U+1106A", "U+1106B", "U+1106C",
      "U+1106D", "U+1106E", "U+1106F", "U+110F0", "U+110F1", "U+110F2",
      "U+110F3", "U+110F4", "U+110F5", "U+110F6", "U+110F7", "U+110F8",
      "U+110F9", "U+11136", "U+11137", "U+11138", "U+11139", "U+1113A",
      "U+1113B", "U+1113C", "U+1113D", "U+1113E", "U+1113F", "U+111D0",
      "U+111D1", "U+111D2", "U+111D3", "U+111D4", "U+111D5", "U+111D6",
      "U+111D7", "U+111D8", "U+111D9", "U+112F0", "U+112F1", "U+112F2",
      "U+112F3", "U+112F4", "U+112F5", "U+112F6", "U+112F7", "U+112F8",
      "U+112F9", "U+11450", "U+11451", "U+11452", "U+11453", "U+11454",
      "U+11455", "U+11456", "U+11457", "U+11458", "U+11459", "U+114D0",
      "U+114D1", "U+114D2", "U+114D3", "U+114D4", "U+114D5", "U+114D6",
      "U+114D7", "U+114D8", "U+114D9", "U+11650", "U+11651", "U+11652",
      "U+11653", "U+11654", "U+11655", "U+11656", "U+11657", "U+11658",
      "U+11659", "U+116C0", "U+116C1", "U+116C2", "U+116C3", "U+116C4",
      "U+116C5", "U+116C6", "U+116C7", "U+116C8", "U+116C9", "U+11730",
      "U+11731", "U+11732", "U+11733", "U+11734", "U+11735", "U+11736",
      "U+11737", "U+11738", "U+11739", "U+118E0", "U+118E1", "U+118E2",
      "U+118E3", "U+118E4", "U+118E5", "U+118E6", "U+118E7", "U+118E8",
      "U+118E9", "U+11950", "U+11951", "U+11952", "U+11953", "U+11954",
      "U+11955", "U+11956", "U+11957", "U+11958", "U+11959", "U+11C50",
      "U+11C51", "U+11C52", "U+11C53", "U+11C54", "U+11C55", "U+11C56",
      "U+11C57", "U+11C58", "U+11C59", "U+11D50", "U+11D51", "U+11D52",
      "U+11D53", "U+11D54", "U+11D55", "U+11D56", "U+11D57", "U+11D58",
      "U+11D59", "U+11DA0", "U+11DA1", "U+11DA2", "U+11DA3", "U+11DA4",
      "U+11DA5", "U+11DA6", "U+11DA7", "U+11DA8", "U+11DA9", "U+16A60",
      "U+16A61", "U+16A62", "U+16A63", "U+16A64", "U+16A65", "U+16A66",
      "U+16A67", "U+16A68", "U+16A69", "U+16AC0", "U+16AC1", "U+16AC2",
      "U+16AC3", "U+16AC4", "U+16AC5", "U+16AC6", "U+16AC7", "U+16AC8",
      "U+16AC9", "U+16B50", "U+16B51", "U+16B52", "U+16B53", "U+16B54",
      "U+16B55", "U+16B56", "U+16B57", "U+16B58", "U+16B59", "U+1D7CE",
      "U+1D7CF", "U+1D7D0", "U+1D7D1", "U+1D7D2", "U+1D7D3", "U+1D7D4",
      "U+1D7D5", "U+1D7D6", "U+1D7D7", "U+1D7D8", "U+1D7D9", "U+1D7DA",
      "U+1D7DB", "U+1D7DC", "U+1D7DD", "U+1D7DE", "U+1D7DF", "U+1D7E0",
      "U+1D7E1", "U+1D7E2", "U+1D7E3", "U+1D7E4", "U+1D7E5", "U+1D7E6",
      "U+1D7E7", "U+1D7E8", "U+1D7E9", "U+1D7EA", "U+1D7EB", "U+1D7EC",
      "U+1D7ED", "U+1D7EE", "U+1D7EF", "U+1D7F0", "U+1D7F1", "U+1D7F2",
      "U+1D7F3", "U+1D7F4", "U+1D7F5", "U+1D7F6", "U+1D7F7", "U+1D7F8",
      "U+1D7F9", "U+1D7FA", "U+1D7FB", "U+1D7FC", "U+1D7FD", "U+1D7FE",
      "U+1D7FF", "U+1E140", "U+1E141", "U+1E142", "U+1E143", "U+1E144",
      "U+1E145", "U+1E146", "U+1E147", "U+1E148", "U+1E149", "U+1E2F0",
      "U+1E2F1", "U+1E2F2", "U+1E2F3", "U+1E2F4", "U+1E2F5", "U+1E2F6",
      "U+1E2F7", "U+1E2F8", "U+1E2F9", "U+1E950", "U+1E951", "U+1E952",
      "U+1E953", "U+1E954", "U+1E955", "U+1E956", "U+1E957", "U+1E958",
      "U+1E959", "U+1FBF0", "U+1FBF1", "U+1FBF2", "U+1FBF3", "U+1FBF4",
      "U+1FBF5", "U+1FBF6", "U+1FBF7", "U+1FBF8", "U+1FBF9" }

\* F(e), with e evaluated once, however often F uses its argument.
With(e, F(_)) == CHOOSE r \in { F(x) : x \in { e } } : TRUE

\* str.lower() of a character and of a string.
LowerSeq ==
    << "a", "b", "c", "d", "e", "f", "g", "h", "i", "j", "k", "l", "m",
       "n", "o", "p", "q", "r", "s", "t", "u", "v", "w", "x", "y", "z" >>
UpperSeq ==
    << "A", "B", "C", "D", "E", "F", "G", "H", "I", "J", "K", "L", "M",
       "N", "O", "P", "Q", "R", "S", "T", "U", "V", "W", "X", "Y", "Z" >>
LowerChar(c) ==
    IF c \in UpperCase
    THEN LowerSeq[CHOOSE i \in 1..Len(UpperSeq) : UpperSeq[i] = c]
    ELSE c
Lower(t) == With(t, LAMBDA s : [i \in 1..Len(s) |-> LowerChar(s[i])])

\* str.find: the position of the first c in t, 0 when t holds none.
Find(t, c) ==
    With(t, LAMBDA s :
        IF \E i \in 1..Len(s) : s[i] = c
        THEN CHOOSE i \in 1..Len(s) :
                 s[i] = c /\ \A j \in 1..(i - 1) : s[j] # c
        ELSE 0)

\* The position of the last c in t, 0 when t holds none.
RFind(t, c) ==
    With(t, LAMBDA s :
        IF \E i \in 1..Len(s) : s[i] = c
        THEN CHOOSE i \in 1..Len(s) :
                 s[i] = c /\ \A j \in (i + 1)..Len(s) : s[j] # c
        ELSE 0)

\* t.partition(c)[0], t.partition(c)[2] and t.rpartition(c)[2].
PartitionHead(t, c) ==
    With(t, LAMBDA s : With(Find(s, c), LAMBDA at :
        IF at = 0 THEN s ELSE SubSeq(s, 1, at - 1)))
PartitionTail(t, c) ==
    With(t, LAMBDA s : With(Find(s, c), LAMBDA at :
        IF at = 0 THEN <<>> ELSE SubSeq(s, at + 1, Len(s))))
RPartitionTail(t, c) ==
    With(t, LAMBDA s : With(RFind(s, c), LAMBDA at :
        IF at = 0 THEN s ELSE SubSeq(s, at + 1, Len(s))))

\* t.split(c): the parts of t between the occurrences of c.
RECURSIVE Split(_, _)
Split(t, c) ==
    With(t, LAMBDA s :
        IF Find(s, c) = 0 THEN << s >>
        ELSE << PartitionHead(s, c) >> \o Split(PartitionTail(s, c), c))

\* t.lstrip(chars)
RECURSIVE LStripOf(_, _)
LStripOf(t, chars) ==
    With(t, LAMBDA s :
        IF s # <<>> /\ Head(s) \in chars THEN LStripOf(Tail(s), chars)
        ELSE s)

\* t with every character of chars removed.
Without(t, chars) == SelectSeq(t, LAMBDA c : c \notin chars)

\* The value of an ASCII decimal digit, and of a string of them.
DigitValue(c) ==
    CHOOSE n \in 0..9 :
        << "0", "1", "2", "3", "4", "5", "6", "7", "8", "9" >>[n + 1] = c
RECURSIVE DigitsValue(_)
DigitsValue(t) ==
    With(t, LAMBDA s :
        IF s = <<>> THEN 0
        ELSE 10 * DigitsValue(SubSeq(s, 1, Len(s) - 1))
             + DigitValue(s[Len(s)]))

\* A string of ASCII digits without the zeros in front.
NoLeadingZeros(t) ==
    With(t, LAMBDA s :
        IF \A i \in 1..Len(s) : s[i] = "0" THEN <<>>
        ELSE SubSeq(s,
                    CHOOSE i \in 1..Len(s) :
                        s[i] # "0" /\ \A j \in 1..(i - 1) : s[j] = "0",
                    Len(s)))

\* int() of a string of ASCII decimal digits: ValueError for more than 4300
\* digits (the interpreter's limit for the conversion, zeros in front
\* counted), else the number.
DecimalValue(t) ==
    IF Len(t) > 4300 THEN [raises |-> TRUE, n |-> 0]
    ELSE [raises |-> FALSE, n |-> DigitsValue(NoLeadingZeros(t))]

\* ipaddress: one octet of an IPv4 address, and an IPv4 address.
Octet(t) ==
    \E s \in { t } :
        /\ s # <<>>
        /\ \A i \in 1..Len(s) : s[i] \in Digits
        /\ Len(s) <= 3
        /\ s = << "0" >> \/ s[1] # "0"
        /\ DecimalValue(s).n <= 255
IsIPv4(t) ==
    \E octets \in { Split(t, ".") } :
        /\ Len(octets) = 4
        /\ \A i \in 1..4 : Octet(octets[i])

\* ipaddress: one hextet of an IPv6 address, and an IPv6 address of up to
\* eight hextets, with an optional scope after "%" and an optional IPv4
\* address as its last part (which stands for two hextets).
HexDigits ==
    Digits \cup { "a", "b", "c", "d", "e", "f", "A", "B", "C", "D", "E", "F" }
Hextet(t) ==
    \E s \in { t } :
        /\ s # <<>>
        /\ \A i \in 1..Len(s) : s[i] \in HexDigits
        /\ Len(s) <= 4
IsIPv6(t) ==
    \E addr \in { PartitionHead(t, "%") }, scope \in { PartitionTail(t, "%") } :
    \E split \in { Split(addr, ":") } :
    \E v4 \in { Find(split[Len(split)], ".") # 0 } :
    \E parts \in { IF v4
                   THEN SubSeq(split, 1, Len(split) - 1)
                        \o << << "0" >>, << "0" >> >>
                   ELSE split } :
    \E n \in { Len(parts) } :
    \E skips \in { { i \in 2..(n - 1) : parts[i] = <<>> } } :
        /\ Find(t, "%") # 0 => scope # <<>> /\ Find(scope, "%") = 0
        /\ addr # <<>>
        /\ Len(split) >= 3
        /\ v4 => IsIPv4(split[Len(split)])
        /\ n <= 8 + 1
        /\ Cardinality(skips) <= 1
        /\ IF skips # {}
           THEN \E skip \in skips :
                \E parts_hi \in { IF parts[1] = <<>> THEN skip - 2
                                  ELSE skip - 1 },
                   parts_lo \in { IF parts[n] = <<>> THEN n - skip - 1
                                  ELSE n - skip } :
                    /\ parts[1] = <<>> => parts_hi = 0
                    /\ parts[n] = <<>> => parts_lo = 0
                    /\ 8 - (parts_hi + parts_lo) >= 1
                    /\ \A i \in 1..parts_hi : Hextet(parts[i])
                    /\ \A i \in (n - parts_lo + 1)..n : Hextet(parts[i])
           ELSE /\ n = 8
                /\ \A i \in 1..n : Hextet(parts[i])

\* urllib.parse, _check_bracketed_host: what stands between "[" and "]" is
\* an IPvFuture address, re.match(r"\Av[a-fA-F0-9]+\..+\Z", host), or an IPv6
\* address; anything else raises ValueError.
IsIPvFuture(host) ==
    \E k \in 1..Len(host) :
        /\ \A i \in 2..(k + 1) : i <= Len(host) /\ host[i] \in HexDigits
        /\ Len(host) >= k + 3
        /\ host[k + 2] = "."
        /\ \A i \in (k + 3)..Len(host) : host[i] # "\n"
BracketedHostOk(host) ==
    \E h \in { host } :
        IF h # <<>> /\ h[1] = "v" THEN IsIPvFuture(h) ELSE IsIPv6(h)

\* urllib.parse: the characters stripped from the front of a URL, those
\* removed from it wherever they stand, those a scheme is made of, and those
\* that end the authority.
C0ControlOrSpace ==
    { "U+0000", "U+0001", "U+0002", "U+0003", "U+0004", "U+0005", "U+0006",
      "U+0007", "U+0008", "\t", "\n", "U+000B", "\f", "\r", "U+000E",
      "U+000F", "U+0010", "U+0011", "U+0012", "U+0013", "U+0014", "U+0015",
      "U+0016", "U+0017", "U+0018", "U+0019", "U+001A", "U+001B", "U+001C",
      "U+001D", "U+001E", "U+001F", " " }
UnsafeUrlChars == { "\t", "\r", "\n" }
SchemeChars == LowerCase \cup UpperCase \cup Digits \cup { "+", "-", "." }
NetlocEnd == { "/", "?", "#" }

\* urlsplit: the URL without the characters stripped and removed.
UrlClean(u) == Without(LStripOf(u, C0ControlOrSpace), UnsafeUrlChars)

\* urlsplit: the scheme of the cleaned URL and what follows it. The scheme is
\* what stands before the first ":" when that starts with a letter and is
\* made of scheme characters, lower-cased; else there is none.
UrlScheme(url) ==
    With(Find(url, ":"), LAMBDA colon :
        IF /\ colon > 1
           /\ url[1] \in LowerCase \cup UpperCase
           /\ \A i \in 1..(colon - 1) : url[i] \in SchemeChars
        THEN [scheme |-> Lower(SubSeq(url, 1, colon - 1)),
              rest |-> SubSeq(url, colon + 1, Len(url))]
        ELSE [scheme |-> <<>>, rest |-> url])

\* urlsplit and _splitnetloc: the netloc is what follows a "//" at the front
\* of rest, up to the first "/", "?" or "#".
UrlNetloc(rest) ==
    IF Len(rest) >= 2 /\ rest[1] = "/" /\ rest[2] = "/"
    THEN With(SubSeq(rest, 3, Len(rest)), LAMBDA after :
             IF \E i \in 1..Len(after) : after[i] \in NetlocEnd
             THEN SubSeq(after, 1,
                         (CHOOSE i \in 1..Len(after) :
                              /\ after[i] \in NetlocEnd
                              /\ \A j \in 1..(i - 1) :
                                     after[j] \notin NetlocEnd) - 1)
             ELSE after)
    ELSE <<>>

\* urlsplit: ValueError for a netloc with one bracket and not the other, or
\* with brackets around what is no IPv6 or IPvFuture address.
NetlocRaises(netloc) ==
    \E open \in { Find(netloc, "[") # 0 }, close \in { Find(netloc, "]") # 0 } :
        \/ open # close
        \/ /\ open
           /\ close
           /\ ~BracketedHostOk(
                  PartitionHead(PartitionTail(netloc, "["), "]"))

\* _hostinfo: the host and the port as the netloc spells them. The host
\* stands after the last "@", in brackets or before the first ":".
HostInfo(netloc) ==
    With(RPartitionTail(netloc, "@"), LAMBDA hostinfo :
        IF Find(hostinfo, "[") # 0
        THEN With(PartitionTail(hostinfo, "["), LAMBDA bracketed :
                 [hostname |-> PartitionHead(bracketed, "]"),
                  port |-> PartitionTail(PartitionTail(bracketed, "]"),
                                         ":")])
        ELSE [hostname |-> PartitionHead(hostinfo, ":"),
              port |-> PartitionTail(hostinfo, ":")])

\* The hostname attribute: None without a host, else the host in lower case,
\* but for what follows a "%".
Hostname(host) ==
    With(host, LAMBDA h :
        IF h = <<>> THEN None
        ELSE With(PartitionHead(h, "%"), LAMBDA name :
                 Some(Lower(name) \o SubSeq(h, Len(name) + 1, Len(h)))))

\* A parse result for a URL urlparse raises ValueError for.
UrlRaises ==
    [ raises |-> TRUE, scheme |-> <<>>, netloc |-> <<>>, hostname |-> None,
      portText |-> None ]

\* urlparse(u), as far as the program reads its result: whether it raises
\* ValueError, the scheme, the netloc, the hostname attribute and the text of
\* the port (None when the netloc has none).  By the NFKC form of a netloc no
\* character of the model's texts makes urlparse raise.
UrlParse(u) ==
    With(UrlClean(u), LAMBDA url :
    With(UrlScheme(url), LAMBDA split :
    With(UrlNetloc(split.rest), LAMBDA netloc :
        IF NetlocRaises(netloc) THEN UrlRaises
        ELSE With(HostInfo(netloc), LAMBDA info :
                 [ raises |-> FALSE,
                   scheme |-> split.scheme,
                   netloc |-> netloc,
                   hostname |-> Hostname(info.hostname),
                   portText |-> IF info.port = <<>> THEN None
                                ELSE Some(info.port) ]))))

\* The port attribute of a parse result: None without a port, ValueError when
\* the port is not a number in 0..65535 written in ASCII digits, else the
\* number.
ParsedPort(parsed) ==
    IF parsed.portText.isNone
    THEN [raises |-> FALSE, isNone |-> TRUE, n |-> 0]
    ELSE With(parsed.portText.v, LAMBDA port :
        IF \E i \in 1..Len(port) : port[i] \notin Digits
        THEN [raises |-> TRUE, isNone |-> FALSE, n |-> 0]
        ELSE IF Len(port) > 4300 \/ Len(NoLeadingZeros(port)) > 5
        THEN [raises |-> TRUE, isNone |-> FALSE, n |-> 0]
        ELSE With(DecimalValue(port), LAMBDA int :
            IF int.raises \/ int.n > 65535
            THEN [raises |-> TRUE, isNone |-> FALSE, n |-> 0]
            ELSE [raises |-> FALSE, isNone |-> FALSE, n |-> int.n]))

\* The shortest API key accepted, after stripping.
MinKeyLen == 10

\* A ValueError of urlparse is caught and the endpoint turned down.
validate_azure_endpoint(endpoint) ==
    IF ~Truthy(endpoint) THEN FALSE
    ELSE \E parsed \in { UrlParse(endpoint.v) } :
         IF parsed.raises THEN FALSE
         ELSE IF parsed.scheme = <<>> \/ parsed.netloc = <<>> THEN FALSE
         ELSE TRUE   \* not an Azure host: a warning is logged, nothing more

validate_api_key(api_key) ==
    IF ~Truthy(api_key) THEN FALSE
    ELSE IF Len(Strip(api_key.v)) < MinKeyLen THEN FALSE
    ELSE TRUE

\* "$" of a pattern at position p of t: at the end of t, or before a newline
\* that ends t.
AtDollar(t, p) == p = Len(t) + 1 \/ (p = Len(t) /\ t[p] = "\n")

\* re.match(r"^[a-z]{2,3}(-[A-Z]{2})?$", t)
MatchLanguage(t) ==
    \E n \in { 2, 3 } :
        /\ Len(t) >= n
        /\ \A i \in 1..n : t[i] \in LowerCase
        /\ \/ AtDollar(t, n + 1)
           \/ /\ Len(t) >= n + 3
              /\ t[n + 1] = "-"
              /\ t[n + 2] \in UpperCase
              /\ t[n + 3] \in UpperCase
              /\ AtDollar(t, n + 4)

Auto == << "a", "u", "t", "o" >>

validate_language_code(language) ==
    IF ~Truthy(language) THEN FALSE
    ELSE IF language.v = Auto THEN TRUE
    ELSE MatchLanguage(language.v)

\* The schemes of a Wyoming URI.
Tcp == << "t", "c", "p" >>
Unix == << "u", "n", "i", "x" >>

\* A ValueError, of urlparse or of the port attribute, is caught and the URI
\* turned down.
validate_wyoming_uri(uri) ==
    IF ~Truthy(uri) THEN FALSE
    ELSE \E parsed \in { UrlParse(uri.v) } :
         IF parsed.raises THEN FALSE
         ELSE IF parsed.scheme \notin { Tcp, Unix } THEN FALSE
         ELSE IF parsed.scheme = Tcp
         THEN IF parsed.hostname.isNone THEN FALSE
              ELSE \E port \in { ParsedPort(parsed) } :
                   IF port.raises THEN FALSE
                   ELSE IF port.isNone \/ port.n = 0 THEN FALSE
                   ELSE TRUE
         ELSE TRUE

\* The model check of validate_configuration.
ModelOk(model) == ~(~Truthy(model) \/ Len(Strip(model.v)) = 0)

\* re.match(r"\d{4}-\d{2}-\d{2}", t): a match at the start of t.
MatchVersion(t) ==
    /\ Len(t) >= 10
    /\ \A i \in { 1, 2, 3, 4, 6, 7, 9, 10 } : t[i] \in DecimalDigits
    /\ t[5] = "-"
    /\ t[8] = "-"

\* The API version check of validate_configuration.
VersionOk(api_version) ==
    ~(~Truthy(api_version) \/ ~MatchVersion(api_version.v))

\* A value as an f-string formats it: str(None) is "None".
Format(value) == IF value.isNone THEN << "N", "o", "n", "e" >> ELSE value.v

\* The list of errors, in the order the checks are made; config holds all six
\* keys, as main() builds it. Three of the messages end with the value that
\* was turned down.
validate_configuration(config) ==
    (IF ~validate_azure_endpoint(config.azure_openai_endpoint)
     THEN << << "Invalid or missing Azure OpenAI endpoint" >> >> ELSE <<>>)
    \o (IF ~validate_api_key(config.azure_openai_api_key)
        THEN << << "Invalid or missing Azure OpenAI API key" >> >> ELSE <<>>)
    \o (IF ~validate_language_code(config.language)
        THEN << << "Invalid language code: " >> \o Format(config.language) >>
        ELSE <<>>)
    \o (IF ~validate_wyoming_uri(config.wyoming_uri)
        THEN << << "Invalid Wyoming URI: " >> \o Format(config.wyoming_uri) >>
        ELSE <<>>)
    \o (IF ~ModelOk(config.model)
        THEN << << "Model name cannot be empty" >> >> ELSE <<>>)
    \o (IF ~VersionOk(config.azure_openai_api_version)
        THEN << << "Invalid API version format: " >>
                \o Format(config.azure_openai_api_version) >>
        ELSE <<>>)

\* os.getenv(name, default) and os.getenv(name), of a variable that is unset
\* (None) or set.
GetEnv(value, default) == IF value.isNone THEN Some(default) ELSE value

\* The defaults main() gives to the variables that have one.
DefaultApiVersion == << "2", "0", "2", "4", "-", "0", "2", "-", "0", "1" >>
DefaultModel == << "g", "p", "t", "-", "a", "u", "d", "i", "o" >>
DefaultLanguage == Auto
DefaultUri ==
    << "t", "c", "p", ":", "/", "/", "0", ".", "0", ".", "0", ".", "0", ":",
       "1", "1", "3", "5", "0" >>

\* cli_args as main() builds it from the environment.
ReadEnv(env) ==
    [ azure_openai_endpoint |-> env.AZURE_OPENAI_ENDPOINT,
      azure_openai_api_key |-> env.AZURE_OPENAI_API_KEY,
      azure_openai_api_version |->
          GetEnv(env.AZURE_OPENAI_API_VERSION, DefaultApiVersion),
      model |-> GetEnv(env.MODEL, DefaultModel),
      language |-> GetEnv(env.LANGUAGE, DefaultLanguage),
      wyoming_uri |-> GetEnv(env.WYOMING_URI, DefaultUri) ]

\* The defaults wyoming_server.py's main() gives to the model and the URI,
\* and cli_args as it builds it.
ServerDefaultModel == << "w", "h", "i", "s", "p", "e", "r", "-", "1" >>
ServerDefaultUri ==
    << "t", "c", "p", ":", "/", "/", "0", ".", "0", ".", "0", ".", "0", ":",
       "1", "0", "3", "0", "0" >>
ServerReadEnv(env) ==
    [ azure_openai_endpoint |-> env.AZURE_OPENAI_ENDPOINT,
      azure_openai_api_key |-> env.AZURE_OPENAI_API_KEY,
      azure_openai_api_version |->
          GetEnv(env.AZURE_OPENAI_API_VERSION, DefaultApiVersion),
      model |-> GetEnv(env.MODEL, ServerDefaultModel),
      language |-> GetEnv(env.LANGUAGE, DefaultLanguage),
      wyoming_uri |-> GetEnv(env.WYOMING_URI, ServerDefaultUri) ]

\* Values of the environment variables: each unset, empty, or one of a few
\* strings.
AzureEndpoint ==
    << "h", "t", "t", "p", "s", ":", "/", "/", "c", "a", "s", "a", "b", "o",
       "t", ".", "o", "p", "e", "n", "a", "i", ".", "a", "z", "u", "r", "e",
       ".", "c", "o", "m", "/" >>
GoodKey == [i \in 1..MinKeyLen |-> "k"]
EnvEndpoints ==
    { None, Some(<<>>), Some(AzureEndpoint),
      \* no scheme
      Some(<< "c", "a", "s", "a", "b", "o", "t", ".", "o", "p", "e", "n", "a",
              "i", ".", "a", "z", "u", "r", "e", ".", "c", "o", "m" >>),
      \* an opening bracket without the closing one
      Some(<< "h", "t", "t", "p", "s", ":", "/", "/", "[", ":", ":", "1" >>),
      \* the scheme in capitals, user and port before an IPv6 host
      Some(<< "H", "T", "T", "P", "S", ":", "/", "/", "u", "@", "[", "F", "E",
              "8", "0", ":", ":", "1", "%", "E", "t", "h", "0", "]", ":", "4",
              "4", "3" >>) }
EnvKeys ==
    { None, Some(<<>>), Some(GoodKey),
      Some(<< "\t" >> \o SubSeq(GoodKey, 2, MinKeyLen) \o << "\r" >>) }
EnvVersions ==
    { None, Some(<<>>), Some(<< "v", "1" >>),
      Some(DefaultApiVersion \o << "-", "p", "r", "e", "v", "i", "e", "w" >>),
      \* Arabic-Indic and fullwidth digits
      Some(<< "U+0662", "U+0660", "U+0662", "U+0664", "-", "U+FF10", "U+FF12",
              "-", "U+FF10", "U+FF11" >>) }
EnvModels ==
    { None, Some(<<>>), Some(<< "\t", "U+3000" >>),
      Some(<< "w", "h", "i", "s", "p", "e", "r", "-", "1" >>) }
EnvLanguages ==
    { None, Some(<<>>), Some(<< "e", "n" >>),
      Some(<< "e", "n", "-", "U", "S" >>),
      Some(<< "e", "n", "g", "l", "i", "s", "h" >>),
      Some(<< "e", "n", "\n" >>) }
EnvUris ==
    { None, Some(<<>>),
      Some(<< "u", "n", "i", "x", ":", "/", "/", "/", "r", "u", "n", "/", "c",
              "a", "s", "a", "b", "o", "t", ".", "s", "o", "c", "k" >>),
      \* no port, port 0, a port that is no number, another scheme
      Some(
          << "t", "c", "p", ":", "/", "/", "0", ".", "0", ".", "0", ".", "0" >>),
      Some(<< "t", "c", "p", ":", "/", "/", "0", ".", "0", ".", "0", ".", "0",
              ":", "0" >>),
      Some(<< "t", "c", "p", ":", "/", "/", "0", ".", "0", ".", "0", ".", "0",
              ":", "s", "t", "t" >>),
      Some(<< "h", "t", "t", "p", ":", "/", "/", "0", ".", "0", ".", "0", ".",
              "0", ":", "1", "1", "3", "5", "0" >>),
      \* a blank in front, the scheme in capitals, a user, a newline at the end
      Some(<< " ", "T", "C", "P", ":", "/", "/", "u", "@", "H", "o", "s", "t",
              ":", "1", "1", "3", "5", "0", "\n" >>),
      \* the authority ends at "?"; a port above the largest
      Some(<< "t", "c", "p", ":", "/", "/", "0", ".", "0", ".", "0", ".", "0",
              ":", "6", "5", "5", "3", "6", "?", "x" >>),
      \* a scheme that starts with a digit
      Some(<< "1", "t", "c", "p", ":", "/", "/", "0", ".", "0", ".", "0", ".",
              "0", ":", "1" >>),
      \* port 10300 written with more digits than int() converts
      Some(<< "t", "c", "p", ":", "/", "/", "0", ".", "0", ".", "0", ".", "0",
              ":" >> \o [i \in 1..4296 |-> "0"]
                    \o << "1", "0", "3", "0", "0" >>),
      \* an IPv6 host without brackets, and with brackets that do not close
      Some(<< "t", "c", "p", ":", "/", "/", ":", ":", "1", ":", "1" >>),
      Some(<< "t", "c", "p", ":", "/", "/", "[", ":", ":", "1", ":", "1" >>) }
EnvNames ==
    { "AZURE_OPENAI_ENDPOINT", "AZURE_OPENAI_API_KEY",
      "AZURE_OPENAI_API_VERSION", "MODEL", "LANGUAGE", "WYOMING_URI" }

\* An environment with the two required variables set and the rest unset.
GoodEnv ==
    [ AZURE_OPENAI_ENDPOINT |-> Some(AzureEndpoint),
      AZURE_OPENAI_API_KEY |-> Some(GoodKey),
      AZURE_OPENAI_API_VERSION |-> None,
      MODEL |-> None,
      LANGUAGE |-> None,
      WYOMING_URI |-> None ]

\* The environments the process is started in: those that differ from GoodEnv
\* in at most MaxOdd variables.
MaxOdd == 2
Environments ==
    { env \in [ AZURE_OPENAI_ENDPOINT : EnvEndpoints,
                AZURE_OPENAI_API_KEY : EnvKeys,
                AZURE_OPENAI_API_VERSION : EnvVersions,
                MODEL : EnvModels,
                LANGUAGE : EnvLanguages,
                WYOMING_URI : EnvUris ] :
          Cardinality({ name \in EnvNames : env[name] # GoodEnv[name] })
              <= MaxOdd }

\* cli_args before main() has read the environment.
NoConfig ==
    [ azure_openai_endpoint |-> None,
      azure_openai_api_key |-> None,
      azure_openai_api_version |-> None,
      model |-> None,
      language |-> None,
      wyoming_uri |-> None ]

\* --------------------------------------------------- session construction

\* What the listener calls the handler factory with.
ReaderWriter == << "reader", "writer" >>

\* The parameters of the base event handler's constructor, after self.
BaseParams == << "reader", "writer" >>

\* Variant: main() binds the two arguments __init__ names, not the client.
MainBindingWithoutClient == << "wyoming_info", "cli_args" >>

\* What main() binds in front of them: partial(handler, wyoming_info,
\* cli_args, client).
MainBinding == << "wyoming_info", "cli_args", "client" >>

\* The parameters __init__ names itself, before *args.
HandlerBinding == << "wyoming_info", "cli_args" >>

\* A handler factory: the positional arguments it gives the handler class
\* itself, and whether it passes on the arguments it is called with (a
\* partial does) or takes none (a lambda without parameters).
NoFactory == [set |-> FALSE, passes |-> FALSE, bound |-> <<>>]

\* __main__.py: partial(AzureOpenAISttEventHandler, wyoming_info, cli_args,
\* client).
MainFactory == [set |-> TRUE, passes |-> TRUE, bound |-> MainBinding]

\* wyoming_server.py: lambda: AzureOpenAISttEventHandler(wyoming_info,
\* cli_args).
ServerFactory == [set |-> TRUE, passes |-> FALSE, bound |-> HandlerBinding]

\* __init__ called with the positional arguments args; ok tells whether
\* openai.AzureOpenAI(...) succeeds. The arguments after the first two go to
\* the base constructor, which takes a reader and a writer; then the buffer is
\* made and _init_openai_client builds the session's client, re-raising when
\* that fails.
HandlerInit(args, ok) ==
    LET base_args == SubSeq(args, Len(HandlerBinding) + 1, Len(args)) IN
    IF Len(args) < Len(HandlerBinding) \/ Len(base_args) # Len(BaseParams)
    THEN [state |-> "TypeError", base_args |-> base_args, builds |-> FALSE]
    ELSE [state |-> IF ok THEN "running" ELSE "client_error",
          base_args |-> base_args, builds |-> TRUE]

\* f(*args): a factory that takes no argument raises TypeError when it
\* is given some, before the handler class is called.
CallFactory(f, args, ok) ==
    IF f.passes THEN HandlerInit(f.bound \o args, ok)
    ELSE IF args # <<>>
    THEN [state |-> "TypeError", base_args |-> <<>>, builds |-> FALSE]
    ELSE HandlerInit(f.bound, ok)

\* ------------------------------------------------------ process actions

\* __main__.py, main() reads the environment.
ReadConfig(env) ==
    /\ proc = "start"
    /\ entry' = "__main__"
    /\ cli_args' = ReadEnv(env)
    /\ proc' = "configured"
    /\ UNCHANGED << factory, session, constructions, error_fields, quota >>
    /\ UNCHANGED sessionVars
    /\ UNCHANGED copies

\* main() validates and exits with status 1 when there are errors.
Validate ==
    /\ proc = "configured"
    /\ entry = "__main__"
    /\ proc' = IF validate_configuration(cli_args) # <<>>
               THEN "exit1" ELSE "validated"
    /\ UNCHANGED << entry, cli_args, factory, session, constructions,
                    error_fields, quota >>
    /\ UNCHANGED sessionVars
    /\ UNCHANGED copies

\* main() builds the client; a failure is logged and re-raised out of main().
BuildClient(ok) ==
    /\ proc = "validated"
    /\ entry = "__main__"
    /\ constructions' =
           Append(constructions, [by |-> "main", s |-> 0, ok |-> ok])
    /\ proc' = IF ok THEN "ready" ELSE "crashed"
    /\ UNCHANGED << entry, cli_args, factory, session, error_fields, quota >>
    /\ UNCHANGED sessionVars
    /\ UNCHANGED copies

\* main() makes the server and runs it with the handler factory.
Serve ==
    /\ proc = "ready"
    /\ entry = "__main__"
    /\ factory' = MainFactory
    /\ proc' = "serving"
    /\ UNCHANGED << entry, cli_args, session, constructions, error_fields,
                    quota >>
    /\ UNCHANGED sessionVars
    /\ UNCHANGED copies

\* wyoming_server.py, main() reads the environment.
ServerReadConfig(env) ==
    /\ proc = "start"
    /\ entry' = "wyoming_server"
    /\ cli_args' = ServerReadEnv(env)
    /\ proc' = "configured"
    /\ UNCHANGED << factory, session, constructions, error_fields, quota >>
    /\ UNCHANGED sessionVars
    /\ UNCHANGED copies

\* wyoming_server.py, main() exits with status 1 when the endpoint or the API
\* key is unset or empty; it checks nothing else.
ServerCheckRequired ==
    /\ proc = "configured"
    /\ entry = "wyoming_server"
    /\ proc' = IF ~Truthy(cli_args.azure_openai_endpoint) THEN "exit1"
               ELSE IF ~Truthy(cli_args.azure_openai_api_key) THEN "exit1"
               ELSE "validated"
    /\ UNCHANGED << entry, cli_args, factory, session, constructions,
                    error_fields, quota >>
    /\ UNCHANGED sessionVars
    /\ UNCHANGED copies

\* AsyncServer.from_uri (wyoming.server): ValueError unless the scheme is
\* one of the three it knows.
Stdio == << "s", "t", "d", "i", "o" >>
FromUriRaises(parsed) == parsed.scheme \notin { Unix, Tcp, Stdio }

\* wyoming_server.py, main() parses the URI for its host and port, makes the
\* server and runs it with its factory. It builds no client.  A ValueError of
\* urlparse, of the port attribute or of from_uri leaves main() before its
\* try statement.
ServerServe ==
    /\ proc = "validated"
    /\ entry = "wyoming_server"
    /\ \E parsed \in { UrlParse(cli_args.wyoming_uri.v) } :
       \E raises \in { \/ parsed.raises
                        \/ ParsedPort(parsed).raises
                        \/ FromUriRaises(parsed) } :
           /\ proc' = IF raises THEN "crashed" ELSE "serving"
           /\ factory' = IF raises THEN factory ELSE ServerFactory
    /\ UNCHANGED << entry, cli_args, session, constructions, error_fields,
                    quota >>
    /\ UNCHANGED sessionVars
    /\ UNCHANGED copies

\* The handler of connection s is constructed, or not, as r tells.
Constructs(s, r, ok) ==
    /\ session' = [session EXCEPT ![s] =
                       [state |-> r.state, base_args |-> r.base_args]]
    /\ constructions' =
           IF r.builds
           THEN Append(constructions, [by |-> "session", s |-> s, ok |-> ok])
           ELSE constructions

\* The listener accepts connection s and calls the factory with its reader
\* and writer.
Accept(s, ok) ==
    /\ proc = "serving"
    /\ session[s].state = "none"
    /\ Constructs(s, CallFactory(factory, ReaderWriter, ok), ok)
    /\ UNCHANGED << proc, entry, cli_args, factory, error_fields, quota >>
    /\ UNCHANGED sessionVars
    /\ UNCHANGED copies

\* The handler class is constructed for connection s as its own parameters
\* ask, without main()'s factory: AzureOpenAISttEventHandler(wyoming_info,
\* cli_args, reader, writer).  Connections are numbered in the order their
\* handlers are constructed.
Construct(s, ok) ==
    /\ session[s].state = "none"
    /\ \A t \in 1..(s - 1) : session[t].state # "none"
    /\ Constructs(s, HandlerInit(HandlerBinding \o ReaderWriter, ok), ok)
    /\ UNCHANGED << proc, entry, cli_args, factory, error_fields, quota >>
    /\ UNCHANGED sessionVars
    /\ UNCHANGED copies

\* ------------------------------------------- the two copies of the handler

\* wyoming_server.py, handle_event, AudioStart branch.
WsOnAudioStart(buffer, bytes_left) ==
    [buffer |-> EmptyBytes, bytes_left |-> 0, ret |-> "True"]

\* wyoming_server.py, handle_event, AudioChunk branch.
WsOnAudioChunk(buffer, bytes_left, audio) ==
    [buffer |-> BytesConcat(buffer, audio),
     bytes_left |-> bytes_left + BytesLen(audio),
     ret |-> "True"]

\* wyoming_server.py, AudioStop branch: `if not audio_data`, the except
\* clause, and the error event for no audio.
WsNoAudio(audio_data) == audio_data = EmptyBytes
WsOnException(fields, cause) ==
    IF ErrorRaises(fields) THEN Raises
    ELSE Writes(ErrorEvent(FailedText(cause)))
WsOnNoAudio(fields) ==
    IF ErrorRaises(fields) THEN WsOnException(fields, KeywordErrorText)
    ELSE Writes(ErrorEvent(NoAudioText))

\* str(e) of the AttributeError raised when the text attribute is read of a
\* value of class cls that has none: the message names the class.
NoTextMessage(cls) == << "'", cls, "' object has no attribute 'text'" >>

\* What str(e) is when response.text is read of None, and of an object
\* without that attribute.
NoneHasNoText == NoTextMessage("NoneType")
ObjectHasNoText(response) == NoTextMessage(response.cls)

\* wyoming_server.py, _transcribe_audio, the value made of the response:
\* `response.text.strip() if response.text else None`, which raises
\* AttributeError when the response has no text attribute.
WsResultText(response) ==
    IF ~response.isObj
    THEN [raises |-> TRUE, cause |-> NoneHasNoText, text |-> None]
    ELSE IF ~response.hasText
    THEN [raises |-> TRUE, cause |-> ObjectHasNoText(response),
          text |-> None]
    ELSE [raises |-> FALSE, cause |-> <<>>,
          text |-> IF Truthy(response.text)
                   THEN Some(Strip(response.text.v)) ELSE None]

\* wyoming_server.py, AudioStop branch: the event for the text.
WsOnText(fields, text) ==
    IF Truthy(text) THEN Writes(TranscriptEvent(text.v))
    ELSE IF ErrorRaises(fields) THEN WsOnException(fields, KeywordErrorText)
    ELSE Writes(ErrorEvent(NoResultText))

\* wyoming_server.py, AudioStop branch from the point where the backend call
\* ends.
WsOnBackendDone(fields, outcome) ==
    IF outcome.kind = "raise" THEN WsOnException(fields, outcome.cause)
    ELSE IF WsResultText(outcome.response).raises
    THEN WsOnException(fields, WsResultText(outcome.response).cause)
    ELSE WsOnText(fields, WsResultText(outcome.response).text)

\* wyoming_server.py, AudioStop branch: write_event raises with str(e) =
\* cause; its writes are placed as those of handler.py.
WsOnWriteRaised(fields, event, cause) ==
    IF WrittenInExcept(event) THEN Raises
    ELSE WsOnException(fields, cause)

\* A session of either copy as __init__ leaves it; pc is where its task
\* stands, as for the sessions above.
NewCopy ==
    [buffer |-> EmptyBytes, bytes_left |-> 0, written |-> <<>>,
     calls |-> <<>>, ret |-> "none", pc |-> "idle"]
TwoCopies == [h |-> NewCopy, w |-> NewCopy, log |-> <<>>]

\* events, written while the k-th event is handled.
Stamp(events, k) == [i \in 1..Len(events) |-> [at |-> k, event |-> events[i]]]

\* A part of the AudioStop branch of session c ends with r while the k-th
\* event is handled: its event is handed to write_event, in which the
\* handler is suspended, or the exception leaves handle_event.
CopyEnds(c, k, r) ==
    [c EXCEPT !.written = @ \o Stamp(r.written, k),
              !.ret = IF r.raises THEN "raised" ELSE @,
              !.pc = IF r.raises THEN After("raised") ELSE "writing"]

\* The backend call of session c is submitted with audio_data and awaited.
CopySubmits(c, k, audio_data) ==
    [c EXCEPT !.calls = Append(@, [audio |-> audio_data, at |-> k,
                                   outcome |-> Pending]),
              !.pc = OnSubmit]

\* The backend call of session c has ended with outcome o.
CopyCalled(c, o) == [c EXCEPT !.calls[Len(c.calls)].outcome = o]

\* write_event returns in session c and handle_event returns True.
CopyWritten(c) ==
    [c EXCEPT !.ret = OnWritten, !.pc = After(OnWritten)]

\* A session of handler.py handles the k-th event: a start-of-stream, a chunk
\* with payload p, an end-of-stream up to its first suspension, in a process
\* whose Error has the given fields; then its backend call ends with outcome
\* o, and its write raises with cause.
HandlerStart(c, k) ==
    LET r == OnAudioStart(c.buffer, c.bytes_left) IN
    [c EXCEPT !.buffer = r.buffer, !.bytes_left = r.bytes_left, !.ret = r.ret]
HandlerChunk(c, k, p) ==
    LET r == OnAudioChunk(c.buffer, c.bytes_left, p) IN
    [c EXCEPT !.buffer = r.buffer, !.bytes_left = r.bytes_left, !.ret = r.ret]
HandlerStop(c, k, fields) ==
    LET audio_data == OnStopRead(c.buffer, c.bytes_left).audio_data IN
    IF NoAudio(audio_data) THEN CopyEnds(c, k, OnNoAudio(fields))
    ELSE IF Declines(audio_data) THEN CopyEnds(c, k, OnText(fields, None))
    ELSE CopySubmits(c, k, audio_data)
HandlerReturn(c, k, o, fields) ==
    CopyEnds(CopyCalled(c, o), k, OnBackendDone(fields, o))
HandlerWriteRaised(c, k, cause, fields) ==
    CopyEnds(c, k, OnWriteRaised(fields, c.written[Len(c.written)].event,
                                 cause))

\* The same for a session of wyoming_server.py, whose _transcribe_audio has no
\* guard before the call.
WsStart(c, k) ==
    LET r == WsOnAudioStart(c.buffer, c.bytes_left) IN
    [c EXCEPT !.buffer = r.buffer, !.bytes_left = r.bytes_left, !.ret = r.ret]
WsChunk(c, k, p) ==
    LET r == WsOnAudioChunk(c.buffer, c.bytes_left, p) IN
    [c EXCEPT !.buffer = r.buffer, !.bytes_left = r.bytes_left, !.ret = r.ret]
WsStop(c, k, fields) ==
    LET audio_data == c.buffer IN
    IF WsNoAudio(audio_data) THEN CopyEnds(c, k, WsOnNoAudio(fields))
    ELSE CopySubmits(c, k, audio_data)
WsReturn(c, k, o, fields) ==
    CopyEnds(CopyCalled(c, o), k, WsOnBackendDone(fields, o))
WsWriteRaised(c, k, cause, fields) ==
    CopyEnds(c, k, WsOnWriteRaised(fields, c.written[Len(c.written)].event,
                                   cause))

\* Events given to the two copies side by side, and the payloads of their
\* chunks: those of Payloads and a chunk with no bytes.
MaxEventsCopies == 4
CopiesPayloads == Payloads \cup { EmptyBytes }

\* Both copies are in their event loops, between events, and there is one
\* more event.
CopiesCanHandle ==
    /\ Len(copies.log) < MaxEventsCopies
    /\ copies.h.pc = "idle"
    /\ copies.w.pc = "idle"

CopiesStart ==
    /\ CopiesCanHandle
    /\ copies' = [h |-> HandlerStart(copies.h, Len(copies.log) + 1),
                  w |-> WsStart(copies.w, Len(copies.log) + 1),
                  log |-> Append(copies.log, AudioStartEvent)]
    /\ UNCHANGED << quota, sessionVars, startupVars >>

CopiesChunk(p) ==
    /\ CopiesCanHandle
    /\ copies' = [h |-> HandlerChunk(copies.h, Len(copies.log) + 1, p),
                  w |-> WsChunk(copies.w, Len(copies.log) + 1, p),
                  log |-> Append(copies.log, AudioChunkEvent(p))]
    /\ UNCHANGED << quota, sessionVars, startupVars >>

\* Both copies are given an end-of-stream: each runs up to its first
\* suspension, or up to the exception that leaves its handle_event.
CopiesStop ==
    /\ CopiesCanHandle
    /\ copies' = [h |-> HandlerStop(copies.h, Len(copies.log) + 1,
                                    error_fields),
                  w |-> WsStop(copies.w, Len(copies.log) + 1, error_fields),
                  log |-> Append(copies.log, AudioStopEvent)]
    /\ UNCHANGED << quota, sessionVars, startupVars >>

\* The backend call ends with outcome o, in each copy that awaits one.
CopiesReturn(o) ==
    /\ copies.h.pc = "awaiting" \/ copies.w.pc = "awaiting"
    /\ copies' = [copies EXCEPT
           !.h = IF @.pc = "awaiting"
                 THEN HandlerReturn(@, Len(copies.log), o, error_fields)
                 ELSE @,
           !.w = IF @.pc = "awaiting"
                 THEN WsReturn(@, Len(copies.log), o, error_fields)
                 ELSE @]
    /\ UNCHANGED << quota, sessionVars, startupVars >>

\* write_event returns, in each copy that is suspended in it.
CopiesWriteDone ==
    /\ copies.h.pc = "writing" \/ copies.w.pc = "writing"
    /\ copies' = [copies EXCEPT
           !.h = IF @.pc = "writing" THEN CopyWritten(@) ELSE @,
           !.w = IF @.pc = "writing" THEN CopyWritten(@) ELSE @]
    /\ UNCHANGED << quota, sessionVars, startupVars >>

\* write_event raises, in each copy that is suspended in it.
CopiesWriteFails(cause) ==
    /\ copies.h.pc = "writing" \/ copies.w.pc = "writing"
    /\ copies' = [copies EXCEPT
           !.h = IF @.pc = "writing"
                 THEN HandlerWriteRaised(@, Len(copies.log), cause,
                                         error_fields)
                 ELSE @,
           !.w = IF @.pc = "writing"
                 THEN WsWriteRaised(@, Len(copies.log), cause, error_fields)
                 ELSE @]
    /\ UNCHANGED << quota, sessionVars, startupVars >>

\* ---------------------------------------------------------- specification

\* Every session as __init__ leaves it: an empty buffer, a counter of 0.
Constructed ==
    /\ audio_buffer = [s \in Sessions |-> EmptyBytes]
    /\ audio_bytes_left = [s \in Sessions |-> 0]
    /\ pc = [s \in Sessions |-> "idle"]
    /\ ret = [s \in Sessions |-> "none"]
    /\ written = [s \in Sessions |-> <<>>]
    /\ calls = [s \in Sessions |-> <<>>]
    /\ handled = [s \in Sessions |-> <<>>]
    /\ copies = TwoCopies

\* main() has not run.
NotStarted ==
    /\ proc = "start"
    /\ entry = "none"
    /\ cli_args = NoConfig
    /\ factory = NoFactory

\* One connection's events: the handler class was constructed for every
\* session as its own parameters ask (main() is not run), and session 1
\* receives up to MaxEvents events.
Init ==
    /\ Constructed
    /\ quota = [s \in Sessions |-> IF s = 1 THEN MaxEvents ELSE 0]
    /\ NotStarted
    /\ error_fields = ErrorFields
    /\ session = [s \in Sessions |->
           [state |-> HandlerInit(HandlerBinding \o ReaderWriter, TRUE).state,
            base_args |->
                HandlerInit(HandlerBinding \o ReaderWriter, TRUE).base_args]]
    /\ constructions =
           [s \in Sessions |-> [by |-> "session", s |-> s, ok |-> TRUE]]

Next ==
    \E s \in Sessions :
        \/ AudioStart(s)
        \/ \E p \in Payloads : AudioChunk(s, p)
        \/ AudioStop(s)
        \/ \E o \in Outcomes : BackendReturn(s, o)
        \/ WriteDone(s)
        \/ \E c \in WriteCauses : WriteFails(s, c)
        \/ Transcribe(s)
        \/ \E t \in OtherTypes : Other(s, t)

Spec == Init /\ [][Next]_vars

\* Events delivered to all connections together in the runs with several
\* sessions.
MaxEventsMulti == 4

\* The payloads and backend outcomes of the runs with several sessions.
MultiPayloads == { Run(1, MinAudioBytes), Run(2, MinAudioBytes) }
MultiOutcomes ==
    { o \in Outcomes : o.kind = "raise" \/ Truthy(ResultText(o.response)) }

\* Several connections: no handler is constructed yet (main() is not run);
\* every connection may deliver events once its handler is.
InitMulti ==
    /\ Constructed
    /\ quota = [s \in Sessions |-> MaxEventsMulti]
    /\ NotStarted
    /\ error_fields = ErrorFields
    /\ session = [s \in Sessions |-> [state |-> "none", base_args |-> <<>>]]
    /\ constructions = <<>>

NextMulti ==
    \E s \in Sessions :
        \/ \E ok \in BOOLEAN : Construct(s, ok)
        \/ AudioStart(s)
        \/ \E p \in MultiPayloads : AudioChunk(s, p)
        \/ AudioStop(s)
        \/ \E o \in MultiOutcomes : BackendReturn(s, o)
        \/ WriteDone(s)
        \/ \E c \in WriteCauses : WriteFails(s, c)

SpecMulti == InitMulti /\ [][NextMulti]_vars

\* The task of session t is run when it is ready, as the event loop runs every
\* ready task in turn; the backend answers the call of t and the write of t
\* ends, returning or raising; and the client of t sends its end-of-stream
\* while it has an event to send.
FairFor(t) ==
    /\ WF_vars(AudioStop(t))
    /\ WF_vars(\E o \in MultiOutcomes : BackendReturn(t, o))
    /\ WF_vars(WriteDone(t) \/ \E c \in WriteCauses : WriteFails(t, c))

\* Several connections, every session but the first being served fairly; of
\* the backend call of session 1 nothing is assumed: it may stay outstanding
\* for ever.
SpecMultiFair ==
    InitMulti /\ [][NextMulti]_vars /\ \A t \in Sessions \ {1} : FairFor(t)

\* The process as it is started: main() has not run yet.
InitStartup ==
    /\ Constructed
    /\ quota = [s \in Sessions |-> 0]
    /\ NotStarted
    /\ error_fields = ErrorFields
    /\ session = [s \in Sessions |-> [state |-> "none", base_args |-> <<>>]]
    /\ constructions = <<>>

NextStartup ==
    \/ \E env \in Environments : ReadConfig(env)
    \/ Validate
    \/ \E ok \in BOOLEAN : BuildClient(ok)
    \/ Serve
    \/ \E env \in Environments : ServerReadConfig(env)
    \/ ServerCheckRequired
    \/ ServerServe
    \/ \E s \in Sessions : \E ok \in BOOLEAN : Accept(s, ok)

SpecStartup == InitStartup /\ [][NextStartup]_vars

\* A session of each copy of the handler, constructed, before any event.
InitCopies ==
    /\ Constructed
    /\ quota = [s \in Sessions |-> 0]
    /\ NotStarted
    /\ error_fields = ErrorFields
    /\ session = [s \in Sessions |-> [state |-> "none", base_args |-> <<>>]]
    /\ constructions = <<>>

NextCopies ==
    \/ CopiesStart
    \/ \E p \in CopiesPayloads : CopiesChunk(p)
    \/ CopiesStop
    \/ \E o \in Outcomes : CopiesReturn(o)
    \/ CopiesWriteDone
    \/ \E c \in WriteCauses : CopiesWriteFails(c)

SpecCopies == InitCopies /\ [][NextCopies]_vars

\* ------------------------------------------------- reading the histories

\* Position of the last start-of-stream before position k of log; 0 if none.
RECURSIVE LastStartBefore(_, _)
LastStartBefore(log, k) ==
    IF k <= 1 THEN 0
    ELSE IF log[k - 1].type = "audio-start" THEN k - 1
    ELSE LastStartBefore(log, k - 1)

\* The chunk payloads at the positions strictly between i and k of log,
\* joined in arrival order.
RECURSIVE ChunksBetween(_, _, _)
ChunksBetween(log, i, k) ==
    IF k - i <= 1 THEN EmptyBytes
    ELSE BytesConcat(ChunksBetween(log, i, k - 1),
                     IF log[k - 1].type = "audio-chunk"
                     THEN log[k - 1].audio ELSE EmptyBytes)

\* What the chunks received since the most recent start-of-stream (or since
\* the session was made, if there was none) add up to at position k of log.
ReceivedSinceStart(log, k) == ChunksBetween(log, LastStartBefore(log, k), k)

\* The events written while the k-th event of session s was handled.
ResponsesTo(s, k) ==
    LET at == { j \in 1..Len(written[s]) : written[s][j].at = k }
        RECURSIVE Pick(_)
        Pick(js) == IF js = {} THEN <<>>
                    ELSE LET j == CHOOSE x \in js : \A y \in js : x <= y
                         IN << written[s][j].event >> \o Pick(js \ {j})
    IN Pick(at)

\* The backend calls made while the k-th event of session s was handled.
CallsAt(s, k) == { i \in 1..Len(calls[s]) : calls[s][i].at = k }

\* The task of session s is inside handle_event, suspended.
Suspended(s) == pc[s] \in { "awaiting", "writing" }

\* handle_event has returned (or raised) for the k-th event of session s.
Finished(s, k) == k < Len(handled[s]) \/ ~Suspended(s)

\* The last event of session s is an end-of-stream whose handling is over.
StopJustHandled(s) ==
    /\ handled[s] # <<>>
    /\ handled[s][Len(handled[s])].type = "audio-stop"
    /\ ~Suspended(s)

\* c occurs in t.
Contains(t, c) ==
    \E i \in 0..(Len(t) - Len(c)) : SubSeq(t, i + 1, i + Len(c)) = c

\* ----------------------------------------------------------------- claims

\* C1: every backend call is made while an end-of-stream is handled, and the
\* bytes it submits are the payloads of the chunks received since the most
\* recent start-of-stream, joined in arrival order: nothing lost, doubled,
\* reordered, and nothing from before that start-of-stream.
C1_SubmitsChunksSinceStart ==
    \A s \in Sessions : \A i \in 1..Len(calls[s]) :
        /\ handled[s][calls[s][i].at].type = "audio-stop"
        /\ calls[s][i].audio = ReceivedSinceStart(handled[s], calls[s][i].at)

\* A call made of two chunks that followed a start-of-stream, with audio
\* received before that start-of-stream.
C1_Witness ==
    \E i \in 1..Len(calls[1]) :
        LET k == calls[1][i].at
            j == LastStartBefore(handled[1], k)
        IN /\ j > 1
           /\ \E m \in 1..(j - 1) : handled[1][m].audio # EmptyBytes
           /\ Cardinality({ m \in (j + 1)..(k - 1) :
                              handled[1][m].audio # EmptyBytes }) >= 2

\* The end-of-stream at position k of session s was handled to its end and
\* nothing was written for it: an exception left handle_event.
Unanswered(s, k) ==
    /\ handled[s][k].type = "audio-stop"
    /\ Finished(s, k)
    /\ ResponsesTo(s, k) = <<>>
    /\ ret[s] = "raised"
    /\ pc[s] = "ended"

\* C2, as claimed: once an end-of-stream has been handled, exactly one event
\* was written for it, a transcript or an error; for an event of any other
\* type none was.
C2_OneResponsePerStop ==
    \A s \in Sessions : \A k \in 1..Len(handled[s]) :
        Finished(s, k) =>
            IF handled[s][k].type = "audio-stop"
            THEN /\ Len(ResponsesTo(s, k)) = 1
                 /\ ResponsesTo(s, k)[1].type \in { "transcript", "error" }
            ELSE ResponsesTo(s, k) = <<>>

\* Two end-of-streams handled, among chunks: one answered with a transcript,
\* and then one for which nothing was written.
C2_Witness ==
    /\ \E j \in 1..Len(written[1]) : written[1][j].event.type = "transcript"
    /\ Unanswered(1, Len(handled[1]))
    /\ \E k \in 1..Len(handled[1]) : handled[1][k].type = "audio-chunk"

\* C3, as claimed: a backend call that raised is answered by exactly one
\* event, an error whose text contains the text of the exception.
C3_FailureYieldsErrorWithCause ==
    \A s \in Sessions : \A i \in 1..Len(calls[s]) :
        calls[s][i].outcome.kind = "raise" =>
            LET rs == ResponsesTo(s, calls[s][i].at) IN
            /\ Len(rs) = 1
            /\ rs[1].type = "error"
            /\ Contains(rs[1].text, calls[s][i].outcome.cause)

\* A call raised and nothing was written for its end-of-stream.
C3_Witness ==
    \E i \in 1..Len(calls[1]) :
        /\ calls[1][i].outcome.kind = "raise"
        /\ calls[1][i].outcome.cause # <<>>
        /\ Unanswered(1, calls[1][i].at)

\* C4, as claimed: an end-of-stream handled with an empty buffer makes no
\* backend call and is answered by the error "No audio data received".
C4_EmptyBufferNoCall ==
    \A s \in Sessions :
        (StopJustHandled(s) /\ audio_buffer[s] = EmptyBytes) =>
            /\ CallsAt(s, Len(handled[s])) = {}
            /\ ResponsesTo(s, Len(handled[s])) = << ErrorEvent(NoAudioText) >>

\* An end-of-stream on an empty buffer after a start-of-stream that discarded
\* audio: no call was made and nothing was written.
C4_Witness ==
    /\ StopJustHandled(1)
    /\ audio_buffer[1] = EmptyBytes
    /\ calls[1] = <<>>
    /\ Unanswered(1, Len(handled[1]))
    /\ Len(handled[1]) >= 3
    /\ handled[1][Len(handled[1]) - 1].type = "audio-start"
    /\ handled[1][1].audio # EmptyBytes

\* C5, as claimed: an end-of-stream handled with 1 to 1023 bytes in the
\* buffer makes no backend call, is answered by one error ("No transcription
\* result"), and the session goes on.
C5_SmallBufferNoCall ==
    \A s \in Sessions :
        (/\ StopJustHandled(s)
         /\ BytesLen(audio_buffer[s]) \in 1..(MinAudioBytes - 1)) =>
            /\ CallsAt(s, Len(handled[s])) = {}
            /\ ResponsesTo(s, Len(handled[s])) = << ErrorEvent(NoResultText) >>
            /\ pc[s] = "idle"
            /\ ret[s] = "True"

\* An end-of-stream handled with 1023 bytes in the buffer: no call was made,
\* nothing was written and the session is over.
C5_Witness ==
    /\ StopJustHandled(1)
    /\ BytesLen(audio_buffer[1]) = MinAudioBytes - 1
    /\ calls[1] = <<>>
    /\ Unanswered(1, Len(handled[1]))

\* u is t without its leading and trailing whitespace.
IsTrimOf(u, t) ==
    /\ u # <<>> => (u[1] \notin Whitespace /\ u[Len(u)] \notin Whitespace)
    /\ \E i \in 0..(Len(t) - Len(u)) :
        /\ SubSeq(t, i + 1, i + Len(u)) = u
        /\ \A m \in 1..i : t[m] \in Whitespace
        /\ \A m \in (i + Len(u) + 1)..Len(t) : t[m] \in Whitespace

\* The backend call returned an object whose text is the string t.
ReturnedText(call, t) ==
    /\ call.outcome.kind = "return"
    /\ call.outcome.response.isObj
    /\ call.outcome.response.hasText
    /\ call.outcome.response.text = Some(t)

\* The texts the backend returned in some call of session s.
ReturnedTexts(s) ==
    { calls[s][i].outcome.response.text.v : i \in 1..Len(calls[s]) }

\* C6, as claimed: every non-empty text the backend returns, text made only
\* of whitespace included, is answered by exactly one transcript carrying
\* the text without its surrounding whitespace.
C6_AsClaimed ==
    \A s \in Sessions : \A i \in 1..Len(calls[s]) : \A t \in ReturnedTexts(s) :
        (ReturnedText(calls[s][i], t) /\ t # <<>>) =>
            LET rs == ResponsesTo(s, calls[s][i].at) IN
            /\ Len(rs) = 1
            /\ rs[1].type = "transcript"
            /\ IsTrimOf(rs[1].text, t)

\* C6, amended: a returned text with a character that is not whitespace is
\* answered by exactly one transcript carrying the text without its
\* surrounding whitespace; a returned text made only of whitespace is
\* stripped to the empty string and gets no transcript: it is handled as an
\* empty result, the error "No transcription result" being all that may be
\* written for it.
C6_TrimmedTranscript ==
    \A s \in Sessions : \A i \in 1..Len(calls[s]) : \A t \in ReturnedTexts(s) :
        (ReturnedText(calls[s][i], t) /\ t # <<>>) =>
            LET rs == ResponsesTo(s, calls[s][i].at) IN
            IF \E m \in 1..Len(t) : t[m] \notin Whitespace
            THEN /\ Len(rs) = 1
                 /\ rs[1].type = "transcript"
                 /\ IsTrimOf(rs[1].text, t)
            ELSE rs \in { <<>>, << ErrorEvent(NoResultText) >> }

\* A returned text with whitespace other than spaces on both sides was
\* answered with a transcript, and the end-of-stream of a returned text made
\* only of whitespace was handled to its end.
C6_Witness ==
    \E i, j \in 1..Len(calls[1]) :
        /\ \E t \in ReturnedTexts(1) :
            /\ ReturnedText(calls[1][i], t)
            /\ Len(t) >= 3
            /\ t[1] \in Whitespace
            /\ t[2] \in Whitespace \ { " ", "\n" }
            /\ t[Len(t) - 1] \in Whitespace \ { " ", "\n" }
            /\ t[Len(t)] \in Whitespace
            /\ \E m \in 1..Len(t) : t[m] \notin Whitespace
            /\ ResponsesTo(1, calls[1][i].at) # <<>>
        /\ \E t \in ReturnedTexts(1) :
            /\ ReturnedText(calls[1][j], t)
            /\ t # <<>>
            /\ \A m \in 1..Len(t) : t[m] \in Whitespace
        /\ ~Suspended(1)

\* C7, as claimed: a backend call that returns no response object, an object
\* with no text, or an object with empty text is answered by exactly one
\* event, the error "No transcription result".
C7_EmptyResultYieldsError ==
    \A s \in Sessions : \A i \in 1..Len(calls[s]) :
        LET o == calls[s][i].outcome IN
        (/\ o.kind = "return"
         /\ \/ ~o.response.isObj
            \/ ~o.response.hasText
            \/ o.response.text.isNone
            \/ o.response.text.v = <<>>) =>
            ResponsesTo(s, calls[s][i].at) = << ErrorEvent(NoResultText) >>

\* A call returned an empty text and nothing was written for its
\* end-of-stream.
C7_Witness ==
    \E i \in 1..Len(calls[1]) :
        /\ ReturnedText(calls[1][i], <<>>)
        /\ Unanswered(1, calls[1][i].at)

\* C8: right after a start-of-stream the buffer is empty and the byte count
\* is 0, whatever came before.
C8_StartResets ==
    \A s \in Sessions :
        (handled[s] # <<>> /\ handled[s][Len(handled[s])].type = "audio-start")
            => (audio_buffer[s] = EmptyBytes /\ audio_bytes_left[s] = 0)

\* Two start-of-streams in a row, the first of them cutting short an
\* utterance that had audio and no end-of-stream.
C8_Witness ==
    LET n == Len(handled[1]) IN
    /\ n >= 3
    /\ handled[1][n].type = "audio-start"
    /\ handled[1][n - 1].type = "audio-start"
    /\ handled[1][n - 2].audio # EmptyBytes
    /\ \A k \in 1..n : handled[1][k].type # "audio-stop"

\* C9, as claimed: handle_event never returns False and never raises: after
\* every event, whatever its type and whatever the backend did, it has
\* returned True and the session is still served.
C9_AlwaysContinues ==
    \A s \in Sessions :
        /\ ret[s] \in { "none", "True" }
        /\ pc[s] # "ended"
        /\ (handled[s] # <<>> /\ pc[s] = "idle") => ret[s] = "True"

\* An exception left handle_event and the session's event loop is over,
\* after an end-of-stream whose backend call raised.
C9_Witness ==
    /\ pc[1] = "ended"
    /\ ret[1] = "raised"
    /\ calls[1] # <<>>
    /\ calls[1][Len(calls[1])].outcome.kind = "raise"
    /\ calls[1][Len(calls[1])].at = Len(handled[1])

\* C10, as claimed: no audio is submitted twice: between any two backend
\* calls of a session there is a start-of-stream.
C10_AsClaimed ==
    \A s \in Sessions : \A i, j \in 1..Len(calls[s]) :
        i < j => \E k \in (calls[s][i].at + 1)..(calls[s][j].at - 1) :
                    handled[s][k].type = "audio-start"

\* C10, amended: an end-of-stream makes at most one backend call: one when
\* the buffer holds at least 1024 bytes, none otherwise.  The buffer is kept
\* after the call, so when no start-of-stream comes between two calls the
\* second submits the audio of the first again, followed by the chunks
\* received since.
C10_OneCallPerStop ==
    \A s \in Sessions :
        /\ \A k \in 1..Len(handled[s]) :
            IF /\ handled[s][k].type = "audio-stop"
               /\ BytesLen(ReceivedSinceStart(handled[s], k)) >= MinAudioBytes
            THEN Cardinality(CallsAt(s, k)) = 1
            ELSE CallsAt(s, k) = {}
        /\ \A i, j \in 1..Len(calls[s]) :
            (/\ j = i + 1
             /\ \A k \in (calls[s][i].at + 1)..(calls[s][j].at - 1) :
                    handled[s][k].type # "audio-start") =>
                calls[s][j].audio =
                    BytesConcat(calls[s][i].audio,
                                ChunksBetween(handled[s], calls[s][i].at,
                                              calls[s][j].at))

\* Two end-of-streams in a row submitted the same audio, and an
\* end-of-stream on a short buffer made no call.
C10_Witness ==
    /\ \E i \in 1..Len(calls[1]) :
        /\ i + 1 <= Len(calls[1])
        /\ calls[1][i + 1].at = calls[1][i].at + 1
        /\ calls[1][i + 1].audio = calls[1][i].audio
    /\ \E k \in 1..Len(handled[1]) :
        /\ handled[1][k].type = "audio-stop"
        /\ CallsAt(1, k) = {}
        /\ Finished(1, k)

\* C11: a session handles one event at a time, in arrival order: while its
\* backend call is outstanding the session's task is suspended on it and no
\* further event has been handled, and by the time the event after an
\* end-of-stream is handled the response to that end-of-stream is written.
C11_OneEventAtATime ==
    \A s \in Sessions :
        /\ \A i \in 1..Len(calls[s]) :
            calls[s][i].outcome = Pending =>
                (pc[s] = "awaiting" /\ calls[s][i].at = Len(handled[s]))
        /\ \A k \in 1..(Len(handled[s]) - 1) :
            handled[s][k].type = "audio-stop" => ResponsesTo(s, k) # <<>>
        /\ \A j \in 1..(Len(written[s]) - 1) :
            written[s][j].at <= written[s][j + 1].at

\* An end-of-stream that made a backend call was answered, and after it a
\* start-of-stream and a chunk of the next utterance were handled.
C11_Witness ==
    \E k \in 1..Len(handled[1]) :
        /\ handled[1][k].type = "audio-stop"
        /\ CallsAt(1, k) # {}
        /\ ResponsesTo(1, k) # <<>>
        /\ k + 2 <= Len(handled[1])
        /\ handled[1][k + 1].type = "audio-start"
        /\ handled[1][k + 2].audio # EmptyBytes

\* The step handles one more event of session s, of one of the given types.
Handles(s, types) ==
    /\ Len(handled'[s]) = Len(handled[s]) + 1
    /\ handled'[s][Len(handled'[s])].type \in types

\* C16: handling a transcribe request, or an event of any type other than
\* start-of-stream, audio-chunk and end-of-stream, changes neither the buffer
\* nor the byte count, makes no backend call, writes nothing and returns True.
C16_OtherEventsAreNoOps ==
    [][\A s \in Sessions :
        (/\ Len(handled'[s]) = Len(handled[s]) + 1
         /\ handled'[s][Len(handled'[s])].type
                \notin { "audio-start", "audio-chunk", "audio-stop" }) =>
            /\ audio_buffer'[s] = audio_buffer[s]
            /\ audio_bytes_left'[s] = audio_bytes_left[s]
            /\ calls'[s] = calls[s]
            /\ written'[s] = written[s]
            /\ ret'[s] = "True"
            /\ pc'[s] = "idle"]_vars

\* A transcribe request and an event of another type were handled with
\* audio in the buffer, and nothing was written.
C16_Witness ==
    /\ \E k \in 1..Len(handled[1]) : handled[1][k].type = "transcribe"
    /\ \E k \in 1..Len(handled[1]) : handled[1][k].type \in OtherTypes
    /\ handled[1][1].audio # EmptyBytes
    /\ audio_buffer[1] # EmptyBytes
    /\ written[1] = <<>>
    /\ ret[1] = "True"

\* C17: the buffer and the byte count change only in a step that handles a
\* start-of-stream or an audio chunk: handling an end-of-stream, whatever
\* its outcome, and everything up to the next start-of-stream or chunk,
\* leaves them as they were.
C17_StopKeepsBuffer ==
    [][\A s \in Sessions :
        (\/ audio_buffer'[s] # audio_buffer[s]
         \/ audio_bytes_left'[s] # audio_bytes_left[s]) =>
            Handles(s, { "audio-start", "audio-chunk" })]_vars

\* An end-of-stream whose backend call raised has been handled and the
\* buffer still holds the audio that was submitted.
C17_Witness ==
    /\ StopJustHandled(1)
    /\ calls[1] # <<>>
    /\ calls[1][Len(calls[1])].at = Len(handled[1])
    /\ calls[1][Len(calls[1])].outcome.kind = "raise"
    /\ audio_buffer[1] = calls[1][Len(calls[1])].audio
    /\ audio_bytes_left[1] >= MinAudioBytes

\* C18: in every state the buffer holds all the chunks handled since the most
\* recent start-of-stream, in order: a chunk is appended whatever the state
\* of the session, also before any start-of-stream and after an
\* end-of-stream, and handling it writes nothing and returns True.
C18_ChunksAlwaysAppended ==
    \A s \in Sessions :
        /\ audio_buffer[s] =
                ReceivedSinceStart(handled[s], Len(handled[s]) + 1)
        /\ \A k \in 1..Len(handled[s]) :
            handled[s][k].type = "audio-chunk" => ResponsesTo(s, k) = <<>>
        /\ (handled[s] # <<>>
                /\ handled[s][Len(handled[s])].type = "audio-chunk") =>
            (ret[s] = "True" /\ pc[s] = "idle")

\* A chunk handled before any start-of-stream and another handled after an
\* end-of-stream that was answered, both in the buffer.
C18_Witness ==
    /\ Len(handled[1]) = 3
    /\ handled[1][1].audio = Run(2, MinAudioBytes)
    /\ handled[1][2].type = "audio-stop"
    /\ handled[1][3].audio = Run(1, MinAudioBytes - 1)
    /\ audio_buffer[1] =
            BytesConcat(Run(2, MinAudioBytes), Run(1, MinAudioBytes - 1))

\* The end-of-stream at position m of session s ended in a per-utterance
\* error: it was handled to its end and no transcript was written for it.
EndedInError(s, m) ==
    /\ handled[s][m].type = "audio-stop"
    /\ Finished(s, m)
    /\ \A j \in 1..Len(ResponsesTo(s, m)) :
           ResponsesTo(s, m)[j].type # "transcript"

\* C19, as claimed: an end-of-stream that ended in a per-utterance error
\* leaves the session between events and served; a later start-of-stream,
\* chunks and end-of-stream whose backend call returns text are answered by
\* one transcript, and the audio submitted is that of the chunks handled
\* after that start-of-stream.
C19_UsableAfterError ==
    \A s \in Sessions :
        /\ (handled[s] # <<>> /\ EndedInError(s, Len(handled[s]))) =>
               (pc[s] = "idle" /\ ret[s] = "True")
        /\ \A i \in 1..Len(calls[s]) : \A t \in ReturnedTexts(s) :
            LET k == calls[s][i].at
                j == LastStartBefore(handled[s], k)
            IN (/\ ReturnedText(calls[s][i], t)
                /\ \E m \in 1..Len(t) : t[m] \notin Whitespace
                /\ \E m \in 1..(j - 1) : EndedInError(s, m)) =>
                    /\ Len(ResponsesTo(s, k)) = 1
                    /\ ResponsesTo(s, k)[1].type = "transcript"
                    /\ IsTrimOf(ResponsesTo(s, k)[1].text, t)
                    /\ calls[s][i].audio = ChunksBetween(handled[s], j, k)

\* A backend call raised, nothing was written for its end-of-stream, and the
\* session is over with events of its connection still to deliver.
C19_Witness ==
    /\ calls[1] # <<>>
    /\ calls[1][Len(calls[1])].outcome.kind = "raise"
    /\ Unanswered(1, calls[1][Len(calls[1])].at)
    /\ Delivered < quota[1]

\* Session t is served, between events, and its connection has an event to
\* deliver.
HasEventToHandle(t) ==
    /\ session[t].state = "running"
    /\ pc[t] = "idle"
    /\ Delivered < quota[t]

\* C12: the blocking backend call runs off the event loop's thread.  Whenever
\* the backend call of session 1 is outstanding and another session is
\* between events with an event of its connection to handle, that session
\* goes on to handle an end-of-stream to its end, its own backend call
\* made and answered and its response handed over, or the connections
\* run out of events; and this in every interleaving, those in which the
\* call of session 1 never ends included.
C12_OthersProgressDuringCall ==
    \A t \in Sessions \ {1} :
        (pc[1] = "awaiting" /\ HasEventToHandle(t) /\ ~StopJustHandled(t))
            ~> (StopJustHandled(t) \/ Delivered >= quota[t])

\* The backend call of session 1 is outstanding, and session 2 has handled
\* audio and an end-of-stream of its own, its call was answered, its
\* transcript was written and it is between events again.
C12_Witness ==
    /\ pc[1] = "awaiting"
    /\ calls[1][Len(calls[1])].outcome = Pending
    /\ StopJustHandled(2)
    /\ pc[2] = "idle"
    /\ calls[2] # <<>>
    /\ calls[2][Len(calls[2])].outcome.kind = "return"
    /\ written[2] # <<>>
    /\ written[2][Len(written[2])].event.type = "transcript"

\* C13: with several sessions served in any interleaving, each session's
\* buffer holds the chunks of its own connection since its last
\* start-of-stream and nothing else, the bytes it submits to the backend are
\* those chunks, and the response it writes to an end-of-stream, if it
\* writes one, is made from the outcome of its own backend call.
C13_SessionsIsolated ==
    \A s \in Sessions :
        /\ audio_buffer[s] = ReceivedSinceStart(handled[s], Len(handled[s]) + 1)
        /\ audio_bytes_left[s] = BytesLen(audio_buffer[s])
        /\ \A i \in 1..Len(calls[s]) :
            LET call == calls[s][i]
                rs == ResponsesTo(s, call.at)
            IN  /\ call.audio = ReceivedSinceStart(handled[s], call.at)
                /\ call.outcome = Pending => rs = <<>>
                /\ call.outcome.kind = "raise" =>
                       rs \in { <<>>,
                                << ErrorEvent(FailedText(call.outcome.cause)) >> }
                /\ (call.outcome.kind = "return"
                    /\ Truthy(call.outcome.response.text)) =>
                       /\ Len(rs) = 1
                       /\ rs[1].type = "transcript"
                       /\ IsTrimOf(rs[1].text, call.outcome.response.text.v)

\* Two sessions hold different audio and each submitted its own to the
\* backend; the call of one raised, which ended that session with nothing
\* written, and the call of the other returned text and was answered.
C13_Witness ==
    /\ calls[1] # <<>>
    /\ calls[2] # <<>>
    /\ calls[1][1].audio # calls[2][1].audio
    /\ calls[1][1].outcome.kind = "raise"
    /\ calls[2][1].outcome.kind = "return"
    /\ ResponsesTo(1, calls[1][1].at) = <<>>
    /\ pc[1] = "ended"
    /\ ResponsesTo(2, calls[2][1].at) # <<>>
    /\ pc[2] = "idle"

\* A language code as the configuration is documented to need: "auto", or two
\* or three lower-case letters, optionally followed by "-" and two upper-case
\* letters, and nothing more.
IsLanguageCode(language) ==
    /\ Truthy(language)
    /\ \/ language.v = Auto
       \/ \E n \in { 2, 3 } :
            /\ Len(language.v) \in { n, n + 3 }
            /\ \A i \in 1..n : language.v[i] \in LowerCase
            /\ Len(language.v) = n + 3 =>
                   /\ language.v[n + 1] = "-"
                   /\ language.v[n + 2] \in UpperCase
                   /\ language.v[n + 3] \in UpperCase

\* Some startup parameter of config is missing or invalid: a validator turns
\* it down, or the language is not a language code.
InvalidOrMissing(config) ==
    \/ ~validate_azure_endpoint(config.azure_openai_endpoint)
    \/ ~validate_api_key(config.azure_openai_api_key)
    \/ ~VersionOk(config.azure_openai_api_version)
    \/ ~ModelOk(config.model)
    \/ ~IsLanguageCode(config.language)
    \/ ~validate_wyoming_uri(config.wyoming_uri)

\* main() has gone past the validation without exiting.
PastValidation == proc \in { "validated", "ready", "crashed", "serving" }

\* C14, as claimed: when a startup parameter (endpoint, API key, API version,
\* model name, language code, listen URI) is invalid or missing, main() of
\* the entry point (__main__.py) does not get past the validation, no backend
\* client is built and no connection is accepted; and the server serves only
\* when validate_configuration returned no errors.
C14_AsClaimed ==
    entry = "__main__" =>
        /\ (proc # "start" /\ InvalidOrMissing(cli_args)) =>
               /\ ~PastValidation
               /\ constructions = <<>>
               /\ \A s \in Sessions : session[s].state = "none"
        /\ proc = "serving" => validate_configuration(cli_args) = <<>>

\* The server of the entry point is serving and has accepted a connection
\* although the language is not a language code: it ends with a newline.
C14_Witness ==
    /\ entry = "__main__"
    /\ proc = "serving"
    /\ ~IsLanguageCode(cli_args.language)
    /\ cli_args.language.v[Len(cli_args.language.v)] = "\n"
    /\ \E s \in Sessions : session[s].state # "none"

C20_AsClaimed ==
    entry = "__main__" =>
        \A s \in Sessions :
            session[s].state # "none" =>
                /\ session[s].base_args = ReaderWriter
                /\ session[s].state = "running"

\* main() serves with its factory, a connection was accepted, and the base
\* constructor was handed the client before the reader and the writer.
C20_Witness ==
    /\ entry = "__main__"
    /\ proc = "serving"
    /\ factory = MainFactory
    /\ session[1].state = "TypeError"
    /\ session[1].base_args = << "client", "reader", "writer" >>

\* ---------------------------------------------------------- the test client

\* The test client sends its audio in chunks of this many bytes.
ChunkSize == 1024

\* The session's run() is over, handle_event having raised or returned False:
\* the server's end of the connection is released, and a read of the client
\* finds the end of the stream.
ConnectionClosed(s) == pc[s] = "ended"

\* await client.read_event(), the client having read n of the events the
\* server wrote: it returns the next event; with none left it returns None
\* when the server has closed the connection, and does not return while the
\* connection stays open.
ReadEvent(events, n, closed) ==
    IF n < Len(events) THEN "event"
    ELSE IF closed THEN "None"
    ELSE "waits"

\* The client after connecting: it reads once before it sends anything, and
\* goes on to send its audio when the read returns, with an event or with
\* None.
AfterConnect(events, closed) ==
    IF ReadEvent(events, 0, closed) = "waits" THEN "reading" ELSE "sending"

\* Variant: the wait loop does not look for the end of the stream.
RECURSIVE WaitLoopNoEof(_, _, _)
WaitLoopNoEof(events, n, closed) ==
    IF ReadEvent(events, n, closed) # "event" THEN "reading"
    ELSE IF events[n + 1].type = "transcript" THEN "done"
    ELSE WaitLoopNoEof(events, n + 1, closed)

\* The client's wait loop, having read n of events: it leaves the loop when
\* a read returns None ("eof") and when it reads a transcript ("done"); it
\* logs any other event and reads again.
RECURSIVE WaitLoop(_, _, _)
WaitLoop(events, n, closed) ==
    IF ReadEvent(events, n, closed) = "waits" THEN "reading"
    ELSE IF ReadEvent(events, n, closed) = "None" THEN "eof"
    ELSE IF events[n + 1].type = "transcript" THEN "done"
    ELSE WaitLoop(events, n + 1, closed)

\* log is what the client sends: a start-of-stream, its audio in chunks of
\* ChunkSize bytes, the last one possibly shorter, and an end-of-stream.
ClientSent(log) ==
    /\ Len(log) >= 3
    /\ log[1].type = "audio-start"
    /\ log[Len(log)].type = "audio-stop"
    /\ \A i \in 2..(Len(log) - 1) :
        /\ log[i].type = "audio-chunk"
        /\ BytesLen(log[i].audio) \in 1..ChunkSize
        /\ i < Len(log) - 1 => BytesLen(log[i].audio) = ChunkSize

\* C21, as claimed: a client that connects and reads an event before it sends
\* anything is sent the server's info event, so its first read returns and it
\* goes on to send its audio.
C21_AsClaimed ==
    \A s \in Sessions :
        (session[s].state = "running" /\ handled[s] = <<>>) =>
            /\ AfterConnect(ResponsesTo(s, 0), ConnectionClosed(s)) = "sending"
            /\ ResponsesTo(s, 0)[1].type = "info"

\* The session is constructed and waits for an event of the client, having
\* written nothing, while the client waits in its first read.
C21_Witness ==
    /\ session[1].state = "running"
    /\ pc[1] = "idle"
    /\ handled[1] = <<>>
    /\ written[1] = <<>>
    /\ AfterConnect(ResponsesTo(1, 0), ConnectionClosed(1)) = "reading"

RECURSIVE CountBetween(_, _, _)
CountBetween(log, i, k) ==
    IF k - i <= 1 THEN 0
    ELSE CountBetween(log, i, k - 1)
         + (IF log[k - 1].type = "audio-chunk"
            THEN BytesLen(log[k - 1].audio) ELSE 0)

\* C23: in every state of a session the byte counter equals the length of
\* the buffer's contents, and both equal the payload lengths of the chunks
\* handled since the last start-of-stream, or since construction if there was
\* none, added up: 0 after construction and after a start-of-stream, more by
\* the payload's length after each chunk, and the same after any other event.
C23_CounterIsBufferLength ==
    \A s \in Sessions :
        /\ audio_bytes_left[s] = BytesLen(audio_buffer[s])
        /\ audio_bytes_left[s] =
               CountBetween(handled[s],
                            LastStartBefore(handled[s], Len(handled[s]) + 1),
                            Len(handled[s]) + 1)

\* A chunk before a start-of-stream, then two chunks and an end-of-stream
\* answered after a backend call: the counter is the length of the two.
C23_Witness ==
    /\ Len(handled[1]) = 5
    /\ handled[1][1].type = "audio-chunk"
    /\ handled[1][1].audio # EmptyBytes
    /\ handled[1][2].type = "audio-start"
    /\ handled[1][3].type = "audio-chunk"
    /\ handled[1][4].type = "audio-chunk"
    /\ handled[1][5].type = "audio-stop"
    /\ pc[1] = "idle"
    /\ calls[1] # <<>>
    /\ audio_bytes_left[1] =
           BytesLen(handled[1][3].audio) + BytesLen(handled[1][4].audio)
    /\ audio_bytes_left[1] > MinAudioBytes

\* Two response events are of the same kind: both errors, or both
\* transcripts with the same text.
SameKind(e, f) ==
    /\ e.type = f.type
    /\ e.type = "transcript" => e.text = f.text

\* C24, as claimed: given the same events and the same backend outcomes, a
\* session of handler.py and a session of wyoming_server.py make the same
\* backend calls, at the same end-of-streams and with the same bytes, and
\* write for every end-of-stream a response of the same kind, also when the
\* buffer holds fewer than MinAudioBytes bytes.
C24_AsClaimed ==
    /\ Len(copies.h.calls) = Len(copies.w.calls)
    /\ \A i \in 1..Len(copies.h.calls) :
        /\ copies.h.calls[i].at = copies.w.calls[i].at
        /\ copies.h.calls[i].audio = copies.w.calls[i].audio
    /\ Len(copies.h.written) = Len(copies.w.written)
    /\ \A i \in 1..Len(copies.h.written) :
        /\ copies.h.written[i].at = copies.w.written[i].at
        /\ SameKind(copies.h.written[i].event, copies.w.written[i].event)

\* Both copies were given a start-of-stream, a chunk of MinAudioBytes - 1
\* bytes and an end-of-stream: handler.py made no call and wrote no
\* transcript, wyoming_server.py submitted the bytes and wrote the transcript.
C24_Witness ==
    /\ copies.log = << AudioStartEvent,
                       AudioChunkEvent(Run(1, MinAudioBytes - 1)),
                       AudioStopEvent >>
    /\ copies.h.calls = <<>>
    /\ \A i \in 1..Len(copies.h.written) :
           copies.h.written[i].event.type # "transcript"
    /\ Len(copies.w.calls) = 1
    /\ copies.w.calls[1].audio = Run(1, MinAudioBytes - 1)
    /\ Len(copies.w.written) = 1
    /\ copies.w.written[1].event.type = "transcript"

====
